---- MODULE Spec2Model ----
(***************************************************************************)
(* A model of the MinIO deployment tool: the disk safety inspector         *)
(* (core/disk.py), the SSH command executor (core/remote.py) and the       *)
(* deployment pipeline (core/deployer.py).                                 *)
(*                                                                         *)
(* Three specifications share the variables:                               *)
(*   SpecDisk  DiskManager.check_os_partition / prepare_disk on a host     *)
(*   SpecExec  RemoteExecutor.execute_command                              *)
(*   Spec      Deployer.run, stage by stage and node by node               *)
(***************************************************************************)
EXTENDS Integers, Sequences, FiniteSets, TLC

VARIABLES
    \* ---- DiskManager (core/disk.py) on the local host
    proc_mounts,    \* /proc/mounts: set of <<device, mount point>>
    fstab,          \* /etc/fstab: sequence of <<device, mount point, filesystem>>
    formatted,      \* devices on which mkfs was run
    disk_call,      \* the DiskManager call made: [op, device, mount_point, format_disk]
    disk_trace,     \* the DiskManager methods that call invoked, in order
    disk_ret,       \* its return value
    \* ---- RemoteExecutor.execute_command (core/remote.py)
    exec_pc,        \* "idle", "connect", "fallback", "connected", "returned", "raised"
    exec_args,      \* [key_file, password] as passed by the caller
    exec_attempts,  \* the client.connect calls made, in order, with their outcome
    exec_client,    \* the transport session: "none", "open", "closed"
    exec_remote,    \* what the remote command produced: [code, out, err]
    exec_exc,       \* the exception the call's handler received, or "none"
    exec_result,    \* the tuple returned: <<exit_code, stdout, stderr>>
    \* ---- Deployer (core/deployer.py) and the hosts it acts on
    config,         \* the loaded configuration
    dry_run,        \* Deployer.dry_run
    elided,         \* whether run() leaves out stages 7 to 9
    pc,             \* "init", the stage run() is in, "done" or "exit"
    node_idx,       \* cluster mode: the nodes the stage's loop has handled
    started,        \* the stages run() has called, in order
    returned,       \* the stages that have returned, in order
    exit_code,      \* the process exit status, -1 while it runs
    remote_mounts,  \* the mount table of each remote target, once read
    nodes_with_minio,   \* check_minio_exists: the targets whose probe found a unit
    nodes_without_minio, \* check_minio_exists: the other targets probed
    unprobed,       \* the targets whose existence probe could not be executed
    reported,       \* the targets the guard's warning listed
    ops,            \* every operation issued: [target, op, device]
    dry_log,        \* the actions a dry run logged instead of doing: [target, op]
    failures,       \* the stage operations that failed: [stage, target]
    fan_calls,      \* the per-node calls the fan-out stages submitted: [stage, target]
    \* ---- RemoteExecutor.execute_parallel (core/remote.py)
    par_pc,         \* "idle", "pool", "returned", "raised"
    tasks,          \* the task list passed
    max_workers,    \* the pool size passed
    future_to_task, \* the dict of the submitted futures, in insertion order
    par_running,    \* the tasks a worker is executing
    par_outcome,    \* per task: how its execute_command ended, "pending" before
    par_done,       \* the tasks in the order their workers finished them
    results,        \* the list being returned
    \* ---- RemoteExecutor.setup_ssh_trust (core/remote.py)
    authorized_keys,\* ~/.ssh/authorized_keys on the host: the sequence of its lines
    trust_pc,       \* "idle", "check", "add", "returned"
    trust_calls,    \* the number of setup_ssh_trust calls made
    trust_password, \* the password argument of the call
    trust_present,  \* whether the key was in the store when the call began
    trust_cmds,     \* the remote commands of the call that change the host
    trust_local,    \* the local key pair: "missing", "existing" or "generated"
    trust_log,      \* every step of every call, in order: [call, step]
    trust_ret,      \* the value the call returned
    \* ---- FirewallManager (core/firewall.py) and the host firewall it drives
    fw_pc,          \* position of configure_firewall: "idle", "loop", "done"
    firewall_type,  \* self.firewall_type: "None", "firewalld", "iptables", "unknown"
    fw_installed,   \* host: the firewall programs that `which` finds
    fw_active,      \* host: whether the status probe of the backend succeeds
    fw_rules,       \* host: the sequence of ports with an accept rule
    fw_saver,       \* host: "service" when _is_redhat_based, else "iptables-save"
    fw_ports,       \* the ports argument of the call in progress
    fw_i,           \* index of the next port in the loop of configure_firewall
    fw_success,     \* the local variable success
    fw_calls,       \* number of calls of configure_firewall made so far
    fw_cmds,        \* every subprocess.run of the manager, in order
    fw_ret,         \* value returned by the last call, "none" before it returns
    fw_log,         \* every turn of the loop: [call, port, was_open, query, found, opened]
    fw_hist,        \* every finished call: [ports, active, ret]
    \* ---- HealthChecker (core/health.py)
    hc_pc,          \* position of run_comprehensive_check: "idle", the next probe, "returned"
    hc_results,     \* the results dict (its boolean entries)
    hc_trace,       \* the probes run_comprehensive_check has run, in order
    hc_buckets,     \* the buckets argument: the bucket configurations to provision
    hc_created,     \* create_buckets: "not called", "True" or "False"
    hc_steps,       \* the mc commands of create_buckets: [cmd, bucket, outcome]
    pl_pc,          \* position of check_port_listening: "idle", "attempt", "wait", "returned"
    retry_count,    \* the retry_count argument of check_port_listening
    pl_attempt,     \* the loop variable attempt of check_port_listening
    pl_log,         \* the connects and sleeps of check_port_listening, in order
    pl_ret,         \* value check_port_listening returned
    \* ---- main (deploy.py)
    main_exc,       \* what main caught: "none", "Exception" or "KeyboardInterrupt"
    \* ---- the transport sessions of RemoteExecutor (core/remote.py)
    sess_pc,        \* position of the call in progress: "idle", "connect", "connected", "returned"
    sess_op,        \* the function called: execute_command, upload_file or download_file
    sess_clients,   \* every paramiko.SSHClient created, in order: [op, client, sftp]
    sess_ret,       \* whether the last call reported success
    \* ---- RemoteExecutor.check_ssh_trust (core/remote.py)
    ct_pc,          \* position of check_ssh_trust: "idle", "key", "default", "store", "password", "returned", "raised"
    ct_args,        \* the key_file and password arguments
    ct_files,       \* local files: the private key, the public key, a default identity
    ct_host,        \* what the host accepts: the configured key, a default identity, the password
    ct_sessions,    \* the connects of the call, in order: [auth, outcome]
    ct_ret,         \* value returned: "none", "True" or "False"
    \* ---- DiskManager.mount_disk, call by call
    mount_log,      \* per call of mount_disk: was the mount command issued, what was returned
    \* ---- ServiceManager.configure_service (core/service.py) and the host it configures
    svc_pc,         \* position of configure_service: "idle", the next step, "returned"
    svc_calls,      \* number of calls of configure_service begun so far
    svc_host,       \* host: which artifacts exist, whether the unit is enabled and started
    svc_log,        \* every step of every call, in order: [call, step, outcome]
    svc_ret,        \* the value the last call returned
    \* ---- Deployer.run_health_checks
    rh_pc,          \* position in run_health_checks
    rh_config,      \* deployment_mode, standalone.host, number of cluster nodes, dry_run
    rh_machines,    \* per machine: is minio active, does the port answer, does the API answer
    rh_results,     \* what run_comprehensive_check returned, per target checked
    rh_exit,        \* exit code of the stage, NoExit while it runs
    \* ---- Deployer.configure_firewall on a remote target
    rf_pc,          \* position: "idle", "start", "remote", "result", "returned", "exited"
    rf_config,      \* is the target the standalone host or a cluster node; dry_run
    rf_host,        \* the target before the stage: firewall-cmd installed, firewalld active, open ports
    rf_open,        \* the ports open on the target
    rf_i,           \* index of the next command of the chain the target runs
    rf_cmds,        \* the commands the target was given, in order
    rf_result       \* result[0] = 0 of execute_command, as "none", "zero", "nonzero"

diskVars == <<proc_mounts, fstab, formatted, disk_call, disk_trace, disk_ret>>

execVars ==
    <<exec_pc, exec_args, exec_attempts, exec_client, exec_remote, exec_exc, exec_result>>

runVars ==
    <<config, dry_run, elided, pc, node_idx, started, returned, exit_code, remote_mounts,
      nodes_with_minio, nodes_without_minio, unprobed, reported, ops, dry_log, failures,
      fan_calls>>

parVars ==
    <<par_pc, tasks, max_workers, future_to_task, par_running, par_outcome, par_done,
      results>>

trustVars ==
    <<authorized_keys, trust_pc, trust_calls, trust_password, trust_present, trust_cmds,
      trust_local, trust_log, trust_ret>>

fwVars == <<fw_pc, firewall_type, fw_installed, fw_active, fw_rules, fw_saver, fw_ports, fw_i, fw_success, fw_calls, fw_cmds, fw_ret, fw_log, fw_hist>>

healthVars == <<hc_pc, hc_results, hc_trace, hc_buckets, hc_created, hc_steps, pl_pc, retry_count, pl_attempt, pl_log, pl_ret>>

mainVars == <<main_exc>>

sessVars == <<sess_pc, sess_op, sess_clients, sess_ret>>

ctVars == <<ct_pc, ct_args, ct_files, ct_host, ct_sessions, ct_ret>>

mountVars == <<mount_log>>

svcVars == <<svc_pc, svc_calls, svc_host, svc_log, svc_ret>>

rhVars == <<rh_pc, rh_config, rh_machines, rh_results, rh_exit>>

rfVars == <<rf_pc, rf_config, rf_host, rf_open, rf_i, rf_cmds, rf_result>>

\* The components outside disk, execute_command and run().
libVars == <<parVars, trustVars, fwVars, healthVars, mainVars, sessVars, ctVars, mountVars, svcVars, rhVars, rfVars>>

\* What the actions of a component leave alone.
parOthers == <<diskVars, execVars, runVars, trustVars, fwVars, healthVars, mainVars, sessVars, ctVars, mountVars, svcVars, rhVars, rfVars>>

trustOthers == <<diskVars, execVars, runVars, parVars, fwVars, healthVars, mainVars, sessVars, ctVars, mountVars, svcVars, rhVars, rfVars>>

fwOthers == <<diskVars, execVars, runVars, parVars, trustVars, healthVars, mainVars, sessVars, ctVars, mountVars, svcVars, rhVars, rfVars>>

healthOthers == <<diskVars, execVars, runVars, parVars, trustVars, fwVars, mainVars, sessVars, ctVars, mountVars, svcVars, rhVars, rfVars>>

mainOthers == <<diskVars, execVars, runVars, parVars, trustVars, fwVars, healthVars, sessVars, ctVars, mountVars, svcVars, rhVars, rfVars>>

sessOthers == <<diskVars, execVars, runVars, parVars, trustVars, fwVars, healthVars, mainVars, ctVars, mountVars, svcVars, rhVars, rfVars>>

ctOthers == <<diskVars, execVars, runVars, parVars, trustVars, fwVars, healthVars, mainVars, sessVars, mountVars, svcVars, rhVars, rfVars>>

mountOthers == <<diskVars, execVars, runVars, parVars, trustVars, fwVars, healthVars, mainVars, sessVars, ctVars, svcVars, rhVars, rfVars>>

svcOthers == <<diskVars, execVars, runVars, parVars, trustVars, fwVars, healthVars, mainVars, sessVars, ctVars, mountVars, rhVars, rfVars>>

rhOthers == <<diskVars, execVars, runVars, parVars, trustVars, fwVars, healthVars, mainVars, sessVars, ctVars, mountVars, svcVars, rfVars>>

rfOthers == <<diskVars, execVars, runVars, parVars, trustVars, fwVars, healthVars, mainVars, sessVars, ctVars, mountVars, svcVars, rhVars>>

vars == <<proc_mounts, fstab, formatted, disk_call, disk_trace, disk_ret,
          exec_pc, exec_args, exec_attempts, exec_client, exec_remote, exec_exc,
          exec_result,
          config, dry_run, elided, pc, node_idx, started, returned, exit_code,
          remote_mounts, nodes_with_minio, nodes_without_minio, unprobed, reported, ops,
          dry_log, failures, fan_calls,
          libVars>>

(***************************************************************************)
(* Block devices.  A device path /dev/<name> is the sequence of the        *)
(* characters of <name>, so that the regular expression of get_os_disks    *)
(* and the grep patterns of the remote checks act on its characters.       *)
(***************************************************************************)
Letters == {"a", "b", "d", "e", "m", "n", "p", "s", "v"}

sda == <<"s", "d", "a">>
sda1 == <<"s", "d", "a", "1">>
sdb == <<"s", "d", "b">>
sdb1 == <<"s", "d", "b", "1">>
nvme0n1 == <<"n", "v", "m", "e", "0", "n", "1">>
nvme0n1p1 == <<"n", "v", "m", "e", "0", "n", "1", "p", "1">>

Devices == {sda, sda1, sdb, sdb1, nvme0n1, nvme0n1p1}

\* The disk that holds a partition, as the kernel names them:
\* sd<x><n> lies on sd<x>, nvme<c>n<d>p<n> lies on nvme<c>n<d>.
HoldingDisk(dev) ==
    CASE dev = sda1 -> sda
      [] dev = sdb1 -> sdb
      [] dev = nvme0n1p1 -> nvme0n1
      [] OTHER -> dev

OsMountPoints == {"/", "/boot", "/boot/efi"}

DataMountPoint == "/data"

NoDev == <<>>

\* The mount tables a host can show: / is always mounted, /boot, /boot/efi
\* and the data directory may be.
MountTables ==
    { {<<f[mp], mp>> : mp \in {m \in DOMAIN f : f[m] # NoDev}} :
        f \in { g \in [OsMountPoints \cup {DataMountPoint} -> {NoDev, sda1, sdb1, nvme0n1p1}] :
                  /\ g["/"] \in {sda1, nvme0n1p1}
                  /\ g["/boot/efi"] # NoDev => g["/boot"] # NoDev
                  /\ g[DataMountPoint] \in {NoDev, sdb1} } }

IsPrefix(s, t) == Len(s) <= Len(t) /\ SubSeq(t, 1, Len(s)) = s

(***************************************************************************)
(* DiskManager                                                             *)
(***************************************************************************)
\* get_os_partitions: the entries of the mount table mounted at /, /boot
\* or /boot/efi.
get_os_partitions(table) == {e \in table : e[2] \in OsMountPoints}

\* re.match(r'(/dev/[a-zA-Z]+)', part): the longest run of letters that
\* starts the device name; no match (NoDev) when the name starts with none.
RECURSIVE LetterRun(_, _)
LetterRun(name, n) ==
    IF n < Len(name) /\ name[n + 1] \in Letters THEN LetterRun(name, n + 1) ELSE n

disk_match(part) == SubSeq(part, 1, LetterRun(part, 0))

get_os_disks(table) ==
    {disk_match(e[1]) : e \in {x \in get_os_partitions(table) : disk_match(x[1]) # NoDev}}

\* A check that compares the device with the OS disks only.
check_os_partition_disks_only(table, device) == device \notin get_os_disks(table)

\* check_os_partition: False for an OS partition or an OS disk.
check_os_partition(table, device) ==
    /\ device \notin {e[1] : e \in get_os_partitions(table)}
    /\ device \notin get_os_disks(table)

\* The steps of prepare_disk whose outcome the environment decides.
DiskFailPoints ==
    {"none", "check_disk", "format_disk", "mount_disk", "add_to_fstab",
     "check_disk_space", "set_permissions"}

\* A mount point written with a trailing slash.
SlashedMountPoint == "/data/"

\* The mount point /proc/mounts shows after "mount {device} {mount_point}":
\* the path the kernel resolved, without the trailing slash.
mounted_at(mount_point) ==
    IF mount_point = SlashedMountPoint THEN DataMountPoint ELSE mount_point

\* The scan of /proc/mounts: parts[0] == device and parts[1] == mount_point.
mount_found(table, device, mount_point) == <<device, mount_point>> \in table

\* The mount command fails when the device is mounted at that directory.
mount_busy(table, device, mount_point) == <<device, mounted_at(mount_point)>> \in table

\* mount_disk: nothing to do when the pair is in the live mount table.
mount_disk(table, device, mount_point) == table \cup {<<device, mounted_at(mount_point)>>}

\* A mount point that holds a blank.
SpacedMountPoint == "/data/minio data"

\* str.split() of the strings the model uses: the words between blanks.
words(s) ==
    IF s = SpacedMountPoint THEN <<"/data/minio", "data">>
    ELSE IF s = "" THEN <<>>
    ELSE <<s>>

\* line.split() of the line f"{device} {mount_point} {filesystem} {options} 0 2":
\* /etc/fstab is kept as the sequence of its lines, each line as its words.
fstab_entry(device, mount_point, filesystem, options) ==
    <<device>> \o words(mount_point) \o words(filesystem) \o words(options) \o <<"0", "2">>

\* The scan of /etc/fstab: a line of fewer than 6 words is skipped.
fstab_has(fs, device, mount_point) ==
    \E i \in 1..Len(fs) :
        /\ Len(fs[i]) >= 6
        /\ fs[i][1] = device
        /\ fs[i][2] = mount_point

\* add_to_fstab: append unless an entry of the same device and mount point exists.
add_to_fstab(fs, device, mount_point, filesystem) ==
    IF fstab_has(fs, device, mount_point) THEN fs
    ELSE Append(fs, fstab_entry(device, mount_point, filesystem, "defaults"))

\* A prepare_disk that formats whatever format_disk says.
prepare_disk_formats_always(table, fs, fmt, device, mount_point, filesystem, format_disk, fail) ==
    LET stop(tr, m, f, fm) ==
            [ret |-> FALSE, trace |-> tr, mounts |-> m, fstab |-> f, formatted |-> fm]
        t1 == <<"check_os_partition">>
        t2 == Append(t1, "check_disk")
        t3 == Append(t2, "format_disk")
        fm3 == fmt \cup {device}
        t4 == Append(t3, "mount_disk")
        m4 == mount_disk(table, device, mount_point)
        t5 == Append(t4, "add_to_fstab")
        f5 == add_to_fstab(fs, device, mount_point, filesystem)
        t6 == Append(t5, "check_disk_space")
        t7 == Append(t6, "set_permissions")
    IN  IF ~check_os_partition(table, device) THEN stop(t1, table, fs, fmt)
        ELSE IF fail = "check_disk" THEN stop(t2, table, fs, fmt)
        ELSE IF fail = "format_disk" THEN stop(t3, table, fs, fmt)
        ELSE IF fail = "mount_disk" /\ <<device, mount_point>> \notin table
             THEN stop(t4, table, fs, fm3)
        ELSE IF fail = "add_to_fstab" THEN stop(t5, m4, fs, fm3)
        ELSE IF fail = "check_disk_space" THEN stop(t6, m4, f5, fm3)
        ELSE IF fail = "set_permissions" THEN stop(t7, m4, f5, fm3)
        ELSE [ret |-> TRUE, trace |-> t7, mounts |-> m4, fstab |-> f5, formatted |-> fm3]

\* prepare_disk: [ret, trace, mounts, fstab, formatted] after the call, where
\* fail names the step the environment makes fail.
prepare_disk(table, fs, fmt, device, mount_point, filesystem, format_disk, fail) ==
    LET stop(tr, m, f, fm) ==
            [ret |-> FALSE, trace |-> tr, mounts |-> m, fstab |-> f, formatted |-> fm]
        t1 == <<"check_os_partition">>
        t2 == Append(t1, "check_disk")
        t3 == IF format_disk THEN Append(t2, "format_disk") ELSE t2
        fm3 == IF format_disk THEN fmt \cup {device} ELSE fmt
        t4 == Append(t3, "mount_disk")
        m4 == mount_disk(table, device, mount_point)
        t5 == Append(t4, "add_to_fstab")
        f5 == add_to_fstab(fs, device, mount_point, filesystem)
        t6 == Append(t5, "check_disk_space")
        t7 == Append(t6, "set_permissions")
    IN  IF ~check_os_partition(table, device) THEN stop(t1, table, fs, fmt)
        ELSE IF fail = "check_disk" THEN stop(t2, table, fs, fmt)
        ELSE IF format_disk /\ fail = "format_disk" THEN stop(t3, table, fs, fmt)
        ELSE IF fail = "mount_disk" /\ <<device, mount_point>> \notin table
             THEN stop(t4, table, fs, fm3)
        ELSE IF fail = "add_to_fstab" THEN stop(t5, m4, fs, fm3)
        ELSE IF fail = "check_disk_space" THEN stop(t6, m4, f5, fm3)
        ELSE IF fail = "set_permissions" THEN stop(t7, m4, f5, fm3)
        ELSE [ret |-> TRUE, trace |-> t7, mounts |-> m4, fstab |-> f5, formatted |-> fm3]

(***************************************************************************)
(* RemoteExecutor.execute_command                                          *)
(***************************************************************************)
\* A path is the sequence of its components; a public key file ends in ".pub".
NoKey == <<>>

KeyFiles == {NoKey, <<"/root", ".ssh", "id_rsa">>, <<"~", ".ssh", "id_rsa">>,
             <<"~", ".ssh", "id_rsa", ".pub">>}

NoPassword == ""

Passwords == {NoPassword, "secret"}

\* os.path.expanduser
expanduser(path) ==
    IF path # <<>> /\ Head(path) = "~" THEN <<"/root">> \o Tail(path) ELSE path

\* The private key file of a key_file argument: a ".pub" suffix is removed.
private_key_file(key_file) ==
    IF key_file = NoKey THEN NoKey
    ELSE LET p == expanduser(key_file)
         IN  IF p[Len(p)] = ".pub" THEN SubSeq(p, 1, Len(p) - 1) ELSE p

\* What connecting or executing can raise, and each class's direct base class.
Exceptions ==
    {"AuthenticationException", "BadAuthenticationType", "SSHException",
     "NoValidConnectionsError", "socket.timeout", "UnicodeDecodeError"}

BaseClass(exc) ==
    CASE exc = "BadAuthenticationType" -> "AuthenticationException"
      [] exc = "AuthenticationException" -> "SSHException"
      [] exc = "SSHException" -> "Exception"
      [] exc = "NoValidConnectionsError" -> "OSError"
      [] exc = "socket.timeout" -> "OSError"
      [] exc = "PermissionError" -> "OSError"
      [] exc = "OSError" -> "Exception"
      [] exc = "UnicodeDecodeError" -> "ValueError"
      [] exc = "ValueError" -> "Exception"
      [] OTHER -> "BaseException"

RECURSIVE IsInstance(_, _)
IsInstance(exc, class) ==
    \/ exc = class
    \/ exc # "BaseException" /\ IsInstance(BaseClass(exc), class)

\* except paramiko.ssh_exception.AuthenticationException (the key attempt)
retries_with_password_on_any_ssh_error(exc) == IsInstance(exc, "SSHException")

retries_with_password(exc) == IsInstance(exc, "AuthenticationException")

\* except Exception as e (the whole call)
caught_only_ssh_errors(exc) == IsInstance(exc, "SSHException")

caught(exc) == IsInstance(exc, "Exception")

\* A first connect that leaves agent and key discovery on in every case.
first_connect_discovery_on(key_file, password) ==
    LET pk == private_key_file(key_file)
    IN  IF pk # NoKey
        THEN [auth |-> "key", key_filename |-> pk, password |-> NoPassword,
              look_for_keys |-> TRUE, allow_agent |-> TRUE]
        ELSE IF password # NoPassword
        THEN [auth |-> "password", key_filename |-> NoKey, password |-> password,
              look_for_keys |-> TRUE, allow_agent |-> TRUE]
        ELSE [auth |-> "default", key_filename |-> NoKey, password |-> NoPassword,
              look_for_keys |-> TRUE, allow_agent |-> TRUE]

\* The first client.connect of a call, by the credentials supplied.
first_connect(key_file, password) ==
    LET pk == private_key_file(key_file)
    IN  IF (pk # NoKey \/ password # NoPassword) /\ password = NoPassword
        THEN [auth |-> "key", key_filename |-> pk, password |-> NoPassword,
              look_for_keys |-> TRUE, allow_agent |-> TRUE]
        ELSE IF pk # NoKey /\ password # NoPassword
        THEN [auth |-> "key", key_filename |-> pk, password |-> NoPassword,
              look_for_keys |-> FALSE, allow_agent |-> FALSE]
        ELSE IF password # NoPassword
        THEN [auth |-> "password", key_filename |-> NoKey, password |-> password,
              look_for_keys |-> TRUE, allow_agent |-> TRUE]
        ELSE [auth |-> "default", key_filename |-> NoKey, password |-> NoPassword,
              look_for_keys |-> TRUE, allow_agent |-> TRUE]

\* The connect of the except-branch of the key attempt.
password_connect(password) ==
    [auth |-> "password", key_filename |-> NoKey, password |-> password,
     look_for_keys |-> TRUE, allow_agent |-> TRUE]

\* The try-block that holds the key attempt: only a call with both credentials has one.
has_password_fallback(key_file, password) ==
    private_key_file(key_file) # NoKey /\ password # NoPassword

\* Output streams are sequences of tokens; str.strip() drops the white ones at both ends.
White == {" ", "\n"}

RECURSIVE lstrip(_)
lstrip(s) == IF s # <<>> /\ Head(s) \in White THEN lstrip(Tail(s)) ELSE s

RECURSIVE rstrip(_)
rstrip(s) ==
    IF s # <<>> /\ s[Len(s)] \in White THEN rstrip(SubSeq(s, 1, Len(s) - 1)) ELSE s

strip(s) == rstrip(lstrip(s))

MaxExitCode == 2

RemoteStdout == {<<>>, <<"out">>, <<"out", "\n">>}

RemoteStderr == {<<>>, <<"err", "\n">>}

NoRemote == [code |-> 0, out |-> <<>>, err |-> <<>>]

NoResult == <<-1, <<>>, <<>>>>

\* return (1, "", str(e))
error_result(exc) == <<1, <<>>, <<exc>>>>

ExecIdle ==
    /\ exec_pc = "idle"
    /\ exec_args = [key_file |-> NoKey, password |-> NoPassword]
    /\ exec_attempts = <<>>
    /\ exec_client = "none"
    /\ exec_remote = NoRemote
    /\ exec_exc = "none"
    /\ exec_result = NoResult

\* The exception e leaves the try block: the handler turns it into a result.
exec_handle(exc) ==
    /\ exec_exc' = exc
    /\ IF caught(exc)
       THEN exec_pc' = "returned" /\ exec_result' = error_result(exc)
       ELSE exec_pc' = "raised" /\ exec_result' = NoResult

\* execute_command is called.
ExecCall ==
    /\ exec_pc = "idle"
    /\ \E k \in KeyFiles, p \in Passwords : exec_args' = [key_file |-> k, password |-> p]
    /\ exec_pc' = "connect"
    /\ UNCHANGED <<exec_attempts, exec_client, exec_remote, exec_exc, exec_result>>
    /\ UNCHANGED diskVars
    /\ UNCHANGED <<runVars, libVars>>

\* The first connection attempt succeeds.
ExecConnectOk ==
    /\ exec_pc = "connect"
    /\ exec_attempts' = <<[call |-> first_connect(exec_args.key_file, exec_args.password),
                           outcome |-> "ok"]>>
    /\ exec_client' = "open"
    /\ exec_pc' = "connected"
    /\ UNCHANGED <<exec_args, exec_remote, exec_exc, exec_result>>
    /\ UNCHANGED diskVars
    /\ UNCHANGED <<runVars, libVars>>

\* The first connection attempt raises.
ExecConnectFails ==
    /\ exec_pc = "connect"
    /\ \E exc \in Exceptions \ {"UnicodeDecodeError"} :
        /\ exec_attempts' = <<[call |-> first_connect(exec_args.key_file, exec_args.password),
                               outcome |-> exc]>>
        /\ IF has_password_fallback(exec_args.key_file, exec_args.password)
              /\ retries_with_password(exc)
           THEN exec_pc' = "fallback" /\ UNCHANGED <<exec_exc, exec_result>>
           ELSE exec_handle(exc)
    /\ UNCHANGED <<exec_args, exec_client, exec_remote>>
    /\ UNCHANGED diskVars
    /\ UNCHANGED <<runVars, libVars>>

\* The password attempt that follows a key attempt refused for authentication.
ExecPasswordFallback ==
    /\ exec_pc = "fallback"
    /\ \E outcome \in {"ok"} \cup (Exceptions \ {"UnicodeDecodeError"}) :
        /\ exec_attempts' = Append(exec_attempts,
                                   [call |-> password_connect(exec_args.password),
                                    outcome |-> outcome])
        /\ IF outcome = "ok"
           THEN /\ exec_pc' = "connected"
                /\ exec_client' = "open"
                /\ UNCHANGED <<exec_exc, exec_result>>
           ELSE exec_handle(outcome) /\ exec_client' = exec_client
    /\ UNCHANGED <<exec_args, exec_remote>>
    /\ UNCHANGED diskVars
    /\ UNCHANGED <<runVars, libVars>>

\* The command runs to its end: exit status and both streams are read, the
\* session is closed and the tuple is returned.
ExecRun ==
    /\ exec_pc = "connected"
    /\ \E code \in 0..MaxExitCode, out \in RemoteStdout, err \in RemoteStderr :
        /\ exec_remote' = [code |-> code, out |-> out, err |-> err]
        /\ exec_result' = <<code, strip(out), strip(err)>>
    /\ exec_client' = "closed"
    /\ exec_pc' = "returned"
    /\ UNCHANGED <<exec_args, exec_attempts, exec_exc>>
    /\ UNCHANGED diskVars
    /\ UNCHANGED <<runVars, libVars>>

\* exec_command, recv_exit_status or the decoding of a stream raises: the
\* handler returns without closing the session.
ExecRunFails ==
    /\ exec_pc = "connected"
    /\ \E exc \in {"SSHException", "socket.timeout", "UnicodeDecodeError"} :
        exec_handle(exc)
    /\ UNCHANGED <<exec_args, exec_attempts, exec_client, exec_remote>>
    /\ UNCHANGED diskVars
    /\ UNCHANGED <<runVars, libVars>>

ExecNext ==
    \/ ExecCall
    \/ ExecConnectOk
    \/ ExecConnectFails
    \/ ExecPasswordFallback
    \/ ExecRun
    \/ ExecRunFails


(***************************************************************************)
(* Deployer: configuration and targets                                     *)
(***************************************************************************)
MaxNodes == 3

\* Target 0 is the host the tool runs on; targets 1..MaxNodes are the remote
\* hosts: the cluster nodes in configuration order, or, in standalone mode
\* with a remote host, target 1.
LocalTarget == 0

LocalHosts == {"localhost", "127.0.0.1", "127.0.1.1"}

NoDisk == [enabled |-> FALSE, device |-> NoDev, format_disk |-> FALSE]

DiskConfigs ==
    {NoDisk} \cup [enabled : {TRUE}, device : {sda, sda1, sdb1, nvme0n1}, format_disk : BOOLEAN]

StandaloneConfigs ==
    [mode : {"standalone"}, host : {"localhost", "192.168.1.10"},
     ssh_password : Passwords, disk : DiskConfigs, nodes : {<<>>}]

NodeConfigs ==
    {[ssh_password |-> NoPassword, disk |-> NoDisk],
     [ssh_password |-> "secret", disk |-> [enabled |-> TRUE, device |-> sdb1, format_disk |-> TRUE]]}

ClusterConfigs ==
    [mode : {"cluster"}, host : {"localhost"}, ssh_password : {NoPassword},
     disk : {NoDisk},
     nodes : UNION {[1..n -> NodeConfigs] : n \in 1..MaxNodes}]

\* The mount tables of the hosts a run meets.
HostTables ==
    {{<<sda1, "/">>},
     {<<sda1, "/boot">>, <<nvme0n1p1, "/">>},
     {<<nvme0n1p1, "/">>, <<sdb1, DataMountPoint>>},
     {<<nvme0n1p1, "/">>}}

\* The mount tables of the cluster nodes.
NodeTables == {{<<sdb1, "/">>}, {<<nvme0n1p1, "/">>}}

is_local(host) == host \in LocalHosts

\* The target of a standalone deployment.
StandaloneTarget == IF is_local(config.host) THEN LocalTarget ELSE 1

NodeCount == Len(config.nodes)

\* run(): the stages in the order it calls them.
RunStagesFirewallBeforeGuards ==
    <<"run_system_checks", "load_config", "check_ssh_trust", "configure_firewall",
      "check_os_partitions", "check_minio_exists">>
    \o (IF elided THEN <<>>
        ELSE <<"install_minio", "configure_minio_service", "run_health_checks">>)

RunStages ==
    <<"run_system_checks", "load_config", "check_ssh_trust", "check_os_partitions",
      "check_minio_exists", "configure_firewall">>
    \o (IF elided THEN <<>>
        ELSE <<"install_minio", "configure_minio_service", "run_health_checks">>)

NextStage(s) ==
    LET i == CHOOSE k \in 1..Len(RunStages) : RunStages[k] = s
    IN  IF i = Len(RunStages) THEN "done" ELSE RunStages[i + 1]

Op(t, o) == [target |-> t, op |-> o, device |-> NoDev]

DiskOp(t, o, d) == [target |-> t, op |-> o, device |-> d]

Planned(t, o) == [target |-> t, op |-> o]

Failure(s, t) == [stage |-> s, target |-> t]

\* Standalone mode, remote host:
\*   df -h | grep -E '<device>' | grep -E '/$' || echo 'not os partition'
\* prints the df lines that contain the device path and end in "/", and
\* 'not os partition' when there is none.
standalone_remote_df_lines(table, device) ==
    {e \in table : IsPrefix(device, e[1]) /\ e[2] = "/"}

\* ... and the run goes on unless the command failed or printed 'not os partition'.
standalone_remote_accepts(table, device, ran) ==
    ran /\ standalone_remote_df_lines(table, device) # {}

vda == <<"v", "d", "a">>

\* Cluster mode, on the node:
\*   grep -E '^(<device>|/dev/sda|/dev/vda)' /proc/mounts | grep -E '(/|/boot|/boot/efi)'
\* Every line the first grep keeps starts with /dev/ and so contains "/".
cluster_grep_lines(table, device) ==
    {e \in table : IsPrefix(device, e[1]) \/ IsPrefix(sda, e[1]) \/ IsPrefix(vda, e[1])}

\* The exit code the deployer sees: 1 when execute_command could not run it.
cluster_probe_exit_code(table, device, ran) ==
    IF ran /\ cluster_grep_lines(table, device) # {} THEN 0 ELSE 1

\* ... and the run goes on unless the exit code is 0.
cluster_accepts(table, device, ran) == cluster_probe_exit_code(table, device, ran) # 0

RunIdle ==
    /\ config = [mode |-> "standalone", host |-> "localhost", ssh_password |-> NoPassword,
                 disk |-> NoDisk, nodes |-> <<>>]
    /\ dry_run = FALSE
    /\ elided = TRUE
    /\ pc = "init"
    /\ node_idx = 0
    /\ started = <<>>
    /\ returned = <<>>
    /\ exit_code = -1
    /\ remote_mounts = [t \in 1..MaxNodes |-> {}]
    /\ nodes_with_minio = <<>>
    /\ nodes_without_minio = <<>>
    /\ unprobed = {}
    /\ reported = <<>>
    /\ ops = {}
    /\ dry_log = {}
    /\ failures = {}
    /\ fan_calls = <<>>

ParIdle ==
    /\ par_pc = "idle"
    /\ tasks = <<>>
    /\ max_workers = 5
    /\ future_to_task = <<>>
    /\ par_running = {}
    /\ par_outcome = <<>>
    /\ par_done = <<>>
    /\ results = <<>>

TrustIdle ==
    /\ authorized_keys = <<>>
    /\ trust_pc = "idle"
    /\ trust_calls = 0
    /\ trust_password = NoPassword
    /\ trust_present = FALSE
    /\ trust_cmds = <<>>
    /\ trust_local = "existing"
    /\ trust_log = <<>>
    /\ trust_ret = FALSE

FwIdle ==
    /\ fw_pc = "idle"
    /\ firewall_type = "None"
    /\ fw_installed = {}
    /\ fw_active = FALSE
    /\ fw_rules = <<>>
    /\ fw_saver = "service"
    /\ fw_ports = <<>>
    /\ fw_i = 0
    /\ fw_success = TRUE
    /\ fw_calls = 0
    /\ fw_cmds = <<>>
    /\ fw_ret = "none"
    /\ fw_log = <<>>
    /\ fw_hist = <<>>

\* The results dict as run_comprehensive_check creates it.
NoResults ==
    [service_running |-> FALSE, port_listening |-> FALSE, console_port_listening |-> FALSE,
     health_api |-> FALSE, mc_available |-> FALSE, bucket_access |-> FALSE,
     overall_status |-> FALSE]

HealthIdle ==
    /\ hc_pc = "idle"
    /\ hc_results = NoResults
    /\ hc_trace = <<>>
    /\ hc_buckets = <<>>
    /\ hc_created = "not called"
    /\ hc_steps = <<>>
    /\ pl_pc = "idle"
    /\ retry_count = 0
    /\ pl_attempt = 0
    /\ pl_log = <<>>
    /\ pl_ret = FALSE

MainIdle ==
    /\ main_exc = "none"

SessIdle ==
    /\ sess_pc = "idle"
    /\ sess_op = "none"
    /\ sess_clients = <<>>
    /\ sess_ret = FALSE

CtIdle ==
    /\ ct_pc = "idle"
    /\ ct_args = [key_file |-> NoKey, password |-> NoPassword]
    /\ ct_files = [private |-> FALSE, public |-> "missing", default |-> FALSE]
    /\ ct_host = [key |-> FALSE, default |-> FALSE, password |-> FALSE]
    /\ ct_sessions = <<>>
    /\ ct_ret = "none"

MountIdle ==
    mount_log = <<>>

SvcIdle ==
    /\ svc_pc = "idle"
    /\ svc_calls = 0
    /\ svc_host = [env |-> FALSE, unit |-> FALSE, enabled |-> FALSE, started |-> FALSE]
    /\ svc_log = <<>>
    /\ svc_ret = FALSE

RhIdle ==
    /\ rh_pc = "idle"
    /\ rh_config = [mode |-> "standalone", host |-> "localhost", nodes |-> 0, dry_run |-> FALSE]
    /\ rh_machines = [m \in 0..MaxNodes |-> [active |-> FALSE, listening |-> FALSE, healthy |-> FALSE]]
    /\ rh_results = {}
    /\ rh_exit = 0

RfIdle ==
    /\ rf_pc = "idle"
    /\ rf_config = [kind |-> "standalone", dry_run |-> FALSE]
    /\ rf_host = [installed |-> FALSE, active |-> FALSE, open |-> {}]
    /\ rf_open = {}
    /\ rf_i = 0
    /\ rf_cmds = <<>>
    /\ rf_result = "none"

LibIdle == ParIdle /\ TrustIdle /\ FwIdle /\ HealthIdle /\ MainIdle /\ SessIdle /\ CtIdle /\ MountIdle /\ SvcIdle /\ RhIdle /\ RfIdle

NoCall == [op |-> "none", device |-> NoDev, mount_point |-> "", format_disk |-> FALSE]

DiskIdle ==
    /\ fstab = <<>>
    /\ formatted = {}
    /\ disk_call = NoCall
    /\ disk_trace = <<>>
    /\ disk_ret = FALSE

DiskInit ==
    /\ proc_mounts \in MountTables
    /\ DiskIdle
    /\ ExecIdle
    /\ RunIdle
    /\ LibIdle

\* A caller asks whether a device may be used.
CheckOsPartition ==
    /\ disk_call.op = "none"
    /\ \E device \in Devices :
        /\ disk_call' = [op |-> "check_os_partition", device |-> device,
                         mount_point |-> "", format_disk |-> FALSE]
        /\ disk_trace' = <<"check_os_partition">>
        /\ disk_ret' = check_os_partition(proc_mounts, device)
    /\ UNCHANGED <<proc_mounts, fstab, formatted>>
    /\ UNCHANGED execVars
    /\ UNCHANGED <<runVars, libVars>>

\* A caller prepares a device as the data disk.
PrepareDisk ==
    /\ disk_call.op = "none"
    /\ \E device \in Devices, format_disk \in BOOLEAN, fail \in DiskFailPoints :
        LET r == prepare_disk(proc_mounts, fstab, formatted, device, DataMountPoint,
                              "ext4", format_disk, fail)
        IN  /\ disk_call' = [op |-> "prepare_disk", device |-> device,
                             mount_point |-> DataMountPoint, format_disk |-> format_disk]
            /\ disk_trace' = r.trace
            /\ disk_ret' = r.ret
            /\ proc_mounts' = r.mounts
            /\ fstab' = r.fstab
            /\ formatted' = r.formatted
    /\ UNCHANGED execVars
    /\ UNCHANGED <<runVars, libVars>>

DiskNext == CheckOsPartition \/ PrepareDisk

SpecDisk == DiskInit /\ [][DiskNext]_vars

ExecInit ==
    /\ proc_mounts = {<<sda1, "/">>}
    /\ DiskIdle
    /\ ExecIdle
    /\ RunIdle
    /\ LibIdle

SpecExec == ExecInit /\ [][ExecNext]_vars

(***************************************************************************)
(* Deployer.run                                                            *)
(***************************************************************************)
Init ==
    /\ config \in StandaloneConfigs \cup ClusterConfigs
    /\ dry_run \in BOOLEAN
    /\ elided \in BOOLEAN
    /\ proc_mounts \in (IF config.mode = "standalone" /\ is_local(config.host)
                        THEN HostTables ELSE {{<<sda1, "/">>}})
    /\ remote_mounts \in
         (IF config.mode = "standalone" /\ ~is_local(config.host)
          THEN {[t \in 1..MaxNodes |-> IF t = 1 THEN tb ELSE {}] : tb \in HostTables}
          ELSE {[t \in 1..MaxNodes |-> {}]})
    /\ DiskIdle
    /\ ExecIdle
    /\ LibIdle
    /\ pc = "init"
    /\ node_idx = 0
    /\ started = <<>>
    /\ returned = <<>>
    /\ exit_code = -1
    /\ nodes_with_minio = <<>>
    /\ nodes_without_minio = <<>>
    /\ unprobed = {}
    /\ reported = <<>>
    /\ ops = {}
    /\ dry_log = {}
    /\ failures = {}
    /\ fan_calls = <<>>

\* What no stage of run() touches.
KeepConfig ==
    UNCHANGED <<config, dry_run, elided, execVars, disk_call, disk_trace, disk_ret, libVars>>

\* ... and what no stage but a fan-out touches.
Keep == KeepConfig /\ UNCHANGED fan_calls

guardVars == <<nodes_with_minio, nodes_without_minio, unprobed, reported>>

localDisk == <<proc_mounts, fstab, formatted>>

\* The stage returns: run() calls the next stage, or returns to main, which
\* exits with status 0.
Return(s) ==
    /\ returned' = Append(returned, s)
    /\ node_idx' = 0
    /\ IF NextStage(s) = "done"
       THEN pc' = "done" /\ exit_code' = 0 /\ started' = started
       ELSE /\ pc' = NextStage(s)
            /\ started' = Append(started, NextStage(s))
            /\ exit_code' = exit_code

\* exit(1) inside a stage.
Exit1 ==
    /\ pc' = "exit"
    /\ exit_code' = 1
    /\ UNCHANGED <<started, returned, node_idx>>

\* The end of one iteration of a stage's loop over the nodes.
NodeStep(s) ==
    IF node_idx + 1 = NodeCount THEN Return(s)
    ELSE node_idx' = node_idx + 1 /\ UNCHANGED <<pc, started, returned, exit_code>>

Effects(new_ops, new_log, new_failures) ==
    /\ ops' = ops \cup new_ops
    /\ dry_log' = dry_log \cup new_log
    /\ failures' = failures \cup new_failures

\* run() is called and calls its first stage.
Run ==
    /\ pc = "init"
    /\ pc' = RunStages[1]
    /\ started' = <<RunStages[1]>>
    /\ UNCHANGED <<node_idx, returned, exit_code, remote_mounts, guardVars, ops, dry_log,
                   failures, localDisk>>
    /\ Keep

RunSystemChecks ==
    /\ pc = "run_system_checks"
    /\ IF dry_run
       THEN Effects({}, {Planned(LocalTarget, "run_all_checks")}, {})
            /\ Return("run_system_checks")
       ELSE \E ok \in BOOLEAN :
              IF ok THEN Effects({Op(LocalTarget, "run_all_checks")}, {}, {})
                         /\ Return("run_system_checks")
              ELSE Effects({Op(LocalTarget, "run_all_checks")}, {},
                           {Failure("run_system_checks", LocalTarget)})
                   /\ Exit1
    /\ UNCHANGED <<remote_mounts, guardVars, localDisk>>
    /\ Keep

\* The configuration file is read and validated; the validator exits on a bad one.
LoadConfig ==
    /\ pc = "load_config"
    /\ \E valid \in BOOLEAN :
         IF valid THEN Effects({}, {}, {}) /\ Return("load_config")
         ELSE Effects({}, {}, {Failure("load_config", LocalTarget)}) /\ Exit1
    /\ UNCHANGED <<remote_mounts, guardVars, localDisk>>
    /\ Keep

\* A trust step that sets trust up whenever there is a password.
TrustStepAlwaysSetsUp(t, password, trusted, setup_ok, next) ==
    LET check == Op(t, "check_ssh_trust")
        setup == Op(t, "setup_ssh_trust")
    IN  IF trusted THEN Effects({check}, {}, {}) /\ next
        ELSE IF password = NoPassword
        THEN Effects({check}, {}, {Failure("check_ssh_trust", t)}) /\ Exit1
        ELSE IF setup_ok THEN Effects({check, setup}, {}, {}) /\ next
        ELSE Effects({check, setup}, {}, {Failure("check_ssh_trust", t)}) /\ Exit1

\* A trust step that looks at the dry-run flag before the password.
TrustStepDryRunFirst(t, password, trusted, setup_ok, next) ==
    LET check == Op(t, "check_ssh_trust")
        setup == Op(t, "setup_ssh_trust")
    IN  IF trusted THEN Effects({check}, {}, {}) /\ next
        ELSE IF dry_run
        THEN Effects({check}, {Planned(t, "setup_ssh_trust")}, {}) /\ next
        ELSE IF password = NoPassword
        THEN Effects({check}, {}, {Failure("check_ssh_trust", t)}) /\ Exit1
        ELSE IF setup_ok THEN Effects({check, setup}, {}, {}) /\ next
        ELSE Effects({check, setup}, {}, {Failure("check_ssh_trust", t)}) /\ Exit1

\* check_ssh_trust for one remote target, then next (the rest of the stage).
TrustStep(t, password, trusted, setup_ok, next) ==
    LET check == Op(t, "check_ssh_trust")
        setup == Op(t, "setup_ssh_trust")
    IN  IF trusted THEN Effects({check}, {}, {}) /\ next
        ELSE IF password = NoPassword
        THEN Effects({check}, {}, {Failure("check_ssh_trust", t)}) /\ Exit1
        ELSE IF dry_run
        THEN Effects({check}, {Planned(t, "setup_ssh_trust")}, {}) /\ next
        ELSE IF setup_ok THEN Effects({check, setup}, {}, {}) /\ next
        ELSE Effects({check, setup}, {}, {Failure("check_ssh_trust", t)}) /\ Exit1

CheckSshTrustStandalone ==
    /\ pc = "check_ssh_trust"
    /\ config.mode = "standalone"
    /\ IF is_local(config.host)
       THEN Effects({}, {}, {}) /\ Return("check_ssh_trust")
       ELSE \E trusted \in BOOLEAN, setup_ok \in BOOLEAN :
              TrustStep(1, config.ssh_password, trusted, setup_ok, Return("check_ssh_trust"))
    /\ UNCHANGED <<remote_mounts, guardVars, localDisk>>
    /\ Keep

\* A trust stage that goes on to the next node after a failure.
CheckSshTrustNodeGoesOn ==
    /\ pc = "check_ssh_trust"
    /\ config.mode = "cluster"
    /\ \E trusted \in BOOLEAN :
         IF trusted THEN Effects({Op(node_idx + 1, "check_ssh_trust")}, {}, {})
         ELSE Effects({Op(node_idx + 1, "check_ssh_trust")}, {},
                      {Failure("check_ssh_trust", node_idx + 1)})
    /\ NodeStep("check_ssh_trust")
    /\ UNCHANGED <<remote_mounts, guardVars, localDisk>>
    /\ Keep

CheckSshTrustNode ==
    /\ pc = "check_ssh_trust"
    /\ config.mode = "cluster"
    /\ \E trusted \in BOOLEAN, setup_ok \in BOOLEAN :
         TrustStep(node_idx + 1, config.nodes[node_idx + 1].ssh_password, trusted, setup_ok,
                   NodeStep("check_ssh_trust"))
    /\ UNCHANGED <<remote_mounts, guardVars, localDisk>>
    /\ Keep

\* A device that is mounted exists.
Mounted(table, device) == \E e \in table : e[1] = device

CheckOsPartitionsStandalone ==
    /\ pc = "check_os_partitions"
    /\ config.mode = "standalone"
    /\ LET device == config.disk.device
           t == StandaloneTarget
           stage == "check_os_partitions"
           exists_op == Op(t, "check_partition_exists")
           os_op == Op(t, "check_os_partition")
       IN  IF ~(config.disk.enabled /\ device # NoDev)
           THEN Effects({}, {}, {}) /\ Return(stage)
           ELSE IF dry_run
           THEN Effects({}, {Planned(t, "check_partition_exists"),
                             Planned(t, "check_os_partition")}, {})
                /\ Return(stage)
           ELSE IF is_local(config.host)
           THEN \E exists \in (IF Mounted(proc_mounts, device) THEN {TRUE} ELSE BOOLEAN) :
                  IF ~exists THEN Effects({exists_op}, {}, {Failure(stage, t)}) /\ Exit1
                  ELSE IF check_os_partition(proc_mounts, device)
                  THEN Effects({exists_op, os_op}, {}, {}) /\ Return(stage)
                  ELSE Effects({exists_op, os_op}, {}, {Failure(stage, t)}) /\ Exit1
           ELSE \E exists \in (IF Mounted(remote_mounts[t], device) THEN {TRUE} ELSE BOOLEAN),
                   ran1 \in BOOLEAN, ran2 \in BOOLEAN :
                  IF ~(ran1 /\ exists) THEN Effects({exists_op}, {}, {Failure(stage, t)}) /\ Exit1
                  ELSE IF standalone_remote_accepts(remote_mounts[t], device, ran2)
                  THEN Effects({exists_op, os_op}, {}, {}) /\ Return(stage)
                  ELSE Effects({exists_op, os_op}, {}, {Failure(stage, t)}) /\ Exit1
    /\ UNCHANGED <<remote_mounts, guardVars, localDisk>>
    /\ Keep

CheckOsPartitionsNode ==
    /\ pc = "check_os_partitions"
    /\ config.mode = "cluster"
    /\ LET t == node_idx + 1
           disk == config.nodes[t].disk
           stage == "check_os_partitions"
           conn_op == Op(t, "check_ssh_connection")
           exists_op == Op(t, "check_partition_exists")
           os_op == Op(t, "check_os_partition")
       IN  IF ~(disk.enabled /\ disk.device # NoDev)
           THEN Effects({}, {}, {}) /\ NodeStep(stage) /\ UNCHANGED remote_mounts
           ELSE \E connected \in BOOLEAN, table \in NodeTables, ran1 \in BOOLEAN,
                   ran2 \in BOOLEAN :
                \E exists \in (IF Mounted(table, disk.device) THEN {TRUE} ELSE BOOLEAN) :
                  IF ~connected
                  THEN Effects({conn_op}, {}, {Failure(stage, t)}) /\ Exit1
                       /\ UNCHANGED remote_mounts
                  ELSE IF ~(ran1 /\ exists)
                  THEN Effects({conn_op, exists_op}, {}, {Failure(stage, t)}) /\ Exit1
                       /\ UNCHANGED remote_mounts
                  ELSE /\ remote_mounts' = [remote_mounts EXCEPT ![t] = table]
                       /\ IF cluster_accepts(table, disk.device, ran2)
                          THEN Effects({conn_op, exists_op, os_op}, {}, {})
                               /\ NodeStep(stage)
                          ELSE Effects({conn_op, exists_op, os_op}, {}, {Failure(stage, t)})
                               /\ Exit1
    /\ UNCHANGED <<guardVars, localDisk>>
    /\ Keep

\* An end of check_minio_exists that logs the result and goes on.
guard_verdict_goes_on(with, probes) ==
    /\ reported' = with
    /\ Effects(probes, {}, {})
    /\ Return("check_minio_exists")

\* The end of check_minio_exists: the result is logged, and a unit found on
\* any target ends the run.
guard_verdict(with, probes) ==
    /\ reported' = with
    /\ IF with # <<>>
       THEN Effects(probes, {}, {Failure("check_minio_exists", with[1])}) /\ Exit1
       ELSE Effects(probes, {}, {}) /\ Return("check_minio_exists")

\* The exit code check_minio_exists sees for a probe that was not executed:
\* execute_command gives (1, "", message) for a session it could not open,
\* and check_service_exists gives False when its command raises.
NotExecutedExitCode == 1

\* exit_code == 0: a unit was found.
unit_found(code) == code = 0

\* The probe is executed on the target and finds a unit or none.
CheckMinioExistsStandalone ==
    /\ pc = "check_minio_exists"
    /\ config.mode = "standalone"
    /\ \E found \in BOOLEAN :
         LET t == StandaloneTarget
             with == IF found THEN <<t>> ELSE <<>>
         IN  /\ nodes_with_minio' = with
             /\ nodes_without_minio' = (IF found THEN <<>> ELSE <<t>>)
             /\ guard_verdict(with, {Op(t, "check_service_exists")})
    /\ UNCHANGED <<remote_mounts, localDisk, unprobed>>
    /\ Keep

\* The probe cannot be executed: the target is counted by the exit code.
CheckMinioExistsStandaloneNotExecuted ==
    /\ pc = "check_minio_exists"
    /\ config.mode = "standalone"
    /\ LET t == StandaloneTarget
           found == unit_found(NotExecutedExitCode)
           with == IF found THEN <<t>> ELSE <<>>
       IN  /\ nodes_with_minio' = with
           /\ nodes_without_minio' = (IF found THEN <<>> ELSE <<t>>)
           /\ unprobed' = {t}
           /\ guard_verdict(with, {Op(t, "check_service_exists")})
    /\ UNCHANGED <<remote_mounts, localDisk>>
    /\ Keep

\* One iteration of the loop over the nodes; the last one is followed by
\* the end of the stage.
CheckMinioExistsNode ==
    /\ pc = "check_minio_exists"
    /\ config.mode = "cluster"
    /\ \E found \in BOOLEAN :
         LET t == node_idx + 1
             with == IF found THEN Append(nodes_with_minio, t) ELSE nodes_with_minio
         IN  /\ nodes_with_minio' = with
             /\ nodes_without_minio' =
                  (IF found THEN nodes_without_minio ELSE Append(nodes_without_minio, t))
             /\ IF t = NodeCount
                THEN guard_verdict(with, {Op(t, "check_service_exists")})
                ELSE /\ Effects({Op(t, "check_service_exists")}, {}, {})
                     /\ node_idx' = t
                     /\ UNCHANGED <<pc, started, returned, exit_code, reported>>
    /\ UNCHANGED <<remote_mounts, localDisk, unprobed>>
    /\ Keep

\* One iteration in which the session to the node cannot be opened.
CheckMinioExistsNodeNotExecuted ==
    /\ pc = "check_minio_exists"
    /\ config.mode = "cluster"
    /\ LET t == node_idx + 1
           found == unit_found(NotExecutedExitCode)
           with == IF found THEN Append(nodes_with_minio, t) ELSE nodes_with_minio
       IN  /\ nodes_with_minio' = with
           /\ nodes_without_minio' =
                (IF found THEN nodes_without_minio ELSE Append(nodes_without_minio, t))
           /\ unprobed' = unprobed \cup {t}
           /\ IF t = NodeCount
              THEN guard_verdict(with, {Op(t, "check_service_exists")})
              ELSE /\ Effects({Op(t, "check_service_exists")}, {}, {})
                   /\ node_idx' = t
                   /\ UNCHANGED <<pc, started, returned, exit_code, reported>>
    /\ UNCHANGED <<remote_mounts, localDisk>>
    /\ Keep

\* FirewallManager.configure_firewall on the local host: it returns True
\* without a command when the firewall is not running, True when every port
\* is open in the end, False when a port could not be opened.
LocalFirewallOutcomes == {"inactive", "opened", "failed"}

local_firewall_ops(outcome) ==
    IF outcome = "inactive" THEN {Op(LocalTarget, "is_firewall_running")}
    ELSE {Op(LocalTarget, "is_firewall_running"), Op(LocalTarget, "open_port")}

failed_firewall(outcome, t) ==
    IF outcome = "failed" THEN {Failure("configure_firewall", t)} ELSE {}

ConfigureFirewallStandalone ==
    /\ pc = "configure_firewall"
    /\ config.mode = "standalone"
    /\ LET t == StandaloneTarget
           stage == "configure_firewall"
       IN  IF dry_run
           THEN Effects({}, {Planned(t, "open_ports")}, {}) /\ Return(stage)
           ELSE IF is_local(config.host)
           THEN \* the value configure_firewall(ports) returns is not looked at
                \E outcome \in LocalFirewallOutcomes :
                  Effects(local_firewall_ops(outcome), {}, failed_firewall(outcome, t))
                  /\ Return(stage)
           ELSE \E ok \in BOOLEAN :
                  IF ok THEN Effects({Op(t, "firewall-cmd")}, {}, {}) /\ Return(stage)
                  ELSE Effects({Op(t, "firewall-cmd")}, {}, {Failure(stage, t)}) /\ Exit1
    /\ UNCHANGED <<remote_mounts, guardVars, localDisk>>
    /\ Keep

LocalFirewallDone ==
    IF dry_run THEN Planned(LocalTarget, "open_ports") \in dry_log
    ELSE Op(LocalTarget, "is_firewall_running") \in ops

\* Cluster mode: the local firewall first; the value configure_firewall(ports)
\* returns is not looked at.
ConfigureFirewallLocal ==
    /\ pc = "configure_firewall"
    /\ config.mode = "cluster"
    /\ ~LocalFirewallDone
    /\ IF dry_run
       THEN Effects({}, {Planned(LocalTarget, "open_ports")}, {})
       ELSE \E outcome \in LocalFirewallOutcomes :
              Effects(local_firewall_ops(outcome), {}, failed_firewall(outcome, LocalTarget))
    /\ UNCHANGED <<pc, exit_code, node_idx, started, returned, remote_mounts, guardVars,
                   localDisk>>
    /\ Keep

\* Cluster mode: then every node, over SSH; the tuple execute_command returns
\* is not looked at.
ConfigureFirewallNode ==
    /\ pc = "configure_firewall"
    /\ config.mode = "cluster"
    /\ LocalFirewallDone
    /\ LET t == node_idx + 1
       IN  IF dry_run
           THEN Effects({}, {Planned(t, "open_ports")}, {})
           ELSE \E ok \in BOOLEAN :
                  Effects({Op(t, "firewall-cmd")}, {},
                          IF ok THEN {} ELSE {Failure("configure_firewall", t)})
    /\ NodeStep("configure_firewall")
    /\ UNCHANGED <<remote_mounts, guardVars, localDisk>>
    /\ Keep

InstallMinioStandalone ==
    /\ pc = "install_minio"
    /\ config.mode = "standalone"
    /\ LET t == StandaloneTarget
           stage == "install_minio"
       IN  IF dry_run
           THEN Effects({}, {Planned(t, "install_minio")}, {}) /\ Return(stage)
           ELSE \E ok \in BOOLEAN :
                  \* mc is installed next; its failure is not fatal
                  IF ok THEN Effects({Op(t, "install_minio"), Op(t, "install_mc")}, {}, {})
                             /\ Return(stage)
                  ELSE Effects({Op(t, "install_minio")}, {}, {Failure(stage, t)}) /\ Exit1
    /\ UNCHANGED <<remote_mounts, guardVars, localDisk>>
    /\ Keep

\* A fan-out that submits no node after the first one that fails.
executor_map_until_failure(stage, n, failed) ==
    LET last == IF failed = {} THEN n ELSE CHOOSE i \in failed : \A j \in failed : i <= j
    IN  [i \in 1..last |-> [stage |-> stage, target |-> i]]

\* executor.map(fn, nodes) inside the with block: one call of fn is submitted
\* for every node, whatever the calls return, and all have ended when the
\* block is left.
executor_map(stage, n, failed) == [i \in 1..n |-> [stage |-> stage, target |-> i]]

\* The fan-out over the nodes: every node is tried, then all(results) decides.
\* In a dry run the per-node function only logs and returns True.
InstallMinioCluster ==
    /\ pc = "install_minio"
    /\ config.mode = "cluster"
    /\ LET nodes == 1..NodeCount
           stage == "install_minio"
       IN  \E failed \in (IF dry_run THEN {{}} ELSE SUBSET nodes) :
             LET calls == executor_map(stage, NodeCount, failed)
                 called == {calls[i].target : i \in 1..Len(calls)}
             IN  /\ fan_calls' = fan_calls \o calls
                 /\ IF dry_run
                    THEN Effects({}, {Planned(t, "install_minio") : t \in called}, {})
                    ELSE Effects({Op(t, "install_minio") : t \in called}
                                   \cup {Op(t, "install_mc") : t \in called \ failed},
                                 {}, {Failure(stage, t) : t \in called \cap failed})
                 /\ IF called \cap failed = {} THEN Return(stage) ELSE Exit1
    /\ UNCHANGED <<remote_mounts, guardVars, localDisk>>
    /\ KeepConfig

\* The remote commands of the service stage, in the order they are issued.
RemoteServiceSteps(disk) ==
    (IF disk.enabled
     THEN (IF disk.format_disk THEN <<"mkfs">> ELSE <<>>) \o <<"mkdir_mount_point", "mount">>
     ELSE <<>>)
    \o <<"mkdir_data_dir", "scp_service_file", "scp_env_file", "systemctl_enable_start">>

step_op(t, step, device) ==
    IF step \in {"mkfs", "mount"} THEN DiskOp(t, step, device) ELSE Op(t, step)

ConfigureMinioServiceStandalone ==
    /\ pc = "configure_minio_service"
    /\ config.mode = "standalone"
    /\ LET t == StandaloneTarget
           stage == "configure_minio_service"
           disk == config.disk
           probe == Op(t, "check_service_exists")
       IN  \E found \in BOOLEAN :
           IF found
           THEN Effects({probe}, {}, {Failure(stage, t)}) /\ Exit1
                /\ UNCHANGED <<remote_mounts, localDisk>>
           ELSE IF dry_run
           THEN Effects({probe},
                        (IF disk.enabled THEN {Planned(t, "prepare_disk")} ELSE {})
                          \cup {Planned(t, "configure_service")}, {})
                /\ Return(stage)
                /\ UNCHANGED <<remote_mounts, localDisk>>
           ELSE IF is_local(config.host)
           THEN \E fail \in DiskFailPoints, configured \in BOOLEAN :
                  LET r == IF disk.enabled
                           THEN prepare_disk(proc_mounts, fstab, formatted, disk.device,
                                             DataMountPoint, "ext4", disk.format_disk, fail)
                           ELSE [ret |-> TRUE, trace |-> <<>>, mounts |-> proc_mounts,
                                 fstab |-> fstab, formatted |-> formatted]
                      called == {r.trace[i] : i \in 1..Len(r.trace)}
                      disk_ops ==
                        (IF "format_disk" \in called
                         THEN {DiskOp(t, "mkfs", disk.device)} ELSE {})
                        \cup (IF "mount_disk" \in called
                              THEN {DiskOp(t, "mount", disk.device)} ELSE {})
                  IN  /\ proc_mounts' = r.mounts
                      /\ fstab' = r.fstab
                      /\ formatted' = r.formatted
                      /\ IF ~r.ret
                         THEN Effects({probe} \cup disk_ops, {}, {Failure(stage, t)}) /\ Exit1
                         ELSE IF configured
                         THEN Effects({probe, Op(t, "configure_service")} \cup disk_ops, {}, {})
                              /\ Return(stage)
                         ELSE Effects({probe, Op(t, "configure_service")} \cup disk_ops, {},
                                      {Failure(stage, t)})
                              /\ Exit1
                      /\ UNCHANGED remote_mounts
           ELSE LET steps == RemoteServiceSteps(disk)
                IN  \E issued \in 1..Len(steps), last_ok \in BOOLEAN :
                      \* the steps before the last one issued succeeded
                      LET done == IF last_ok THEN issued ELSE issued - 1
                          mounted == \E i \in 1..done : steps[i] = "mount"
                      IN  /\ last_ok => issued = Len(steps)
                          /\ remote_mounts' =
                               [remote_mounts EXCEPT
                                  ![t] = IF mounted THEN @ \cup {<<disk.device, DataMountPoint>>}
                                         ELSE @]
                          /\ IF last_ok
                             THEN Effects({probe} \cup {step_op(t, steps[i], disk.device) :
                                                          i \in 1..issued}, {}, {})
                                  /\ Return(stage)
                             ELSE Effects({probe} \cup {step_op(t, steps[i], disk.device) :
                                                          i \in 1..issued}, {},
                                          {Failure(stage, t)})
                                  /\ Exit1
                          /\ UNCHANGED localDisk
    /\ UNCHANGED guardVars
    /\ Keep

\* Cluster mode: the nodes are probed again in order; the first unit found
\* ends the run; nothing else is done for a cluster.
ConfigureMinioServiceCluster ==
    /\ pc = "configure_minio_service"
    /\ config.mode = "cluster"
    /\ \E first_found \in 0..NodeCount :
         IF first_found = 0
         THEN Effects({Op(t, "check_service_exists") : t \in 1..NodeCount}, {}, {})
              /\ Return("configure_minio_service")
         ELSE Effects({Op(t, "check_service_exists") : t \in 1..first_found}, {},
                      {Failure("configure_minio_service", first_found)})
              /\ Exit1
    /\ UNCHANGED <<remote_mounts, guardVars, localDisk>>
    /\ Keep

\* Standalone mode: the health check always addresses "localhost".
RunHealthChecksStandalone ==
    /\ pc = "run_health_checks"
    /\ config.mode = "standalone"
    /\ LET stage == "run_health_checks"
       IN  IF dry_run
           THEN Effects({}, {Planned(LocalTarget, "run_comprehensive_check")}, {})
                /\ Return(stage)
           ELSE \E overall_status \in BOOLEAN :
                  IF overall_status
                  THEN Effects({Op(LocalTarget, "run_comprehensive_check")}, {}, {})
                       /\ Return(stage)
                  ELSE Effects({Op(LocalTarget, "run_comprehensive_check")}, {},
                               {Failure(stage, LocalTarget)})
                       /\ Exit1
    /\ UNCHANGED <<remote_mounts, guardVars, localDisk>>
    /\ Keep

RunHealthChecksCluster ==
    /\ pc = "run_health_checks"
    /\ config.mode = "cluster"
    /\ LET nodes == 1..NodeCount
           stage == "run_health_checks"
       IN  \E failed \in (IF dry_run THEN {{}} ELSE SUBSET nodes) :
             LET calls == executor_map(stage, NodeCount, failed)
                 called == {calls[i].target : i \in 1..Len(calls)}
             IN  /\ fan_calls' = fan_calls \o calls
                 /\ IF dry_run
                    THEN Effects({}, {Planned(t, "run_comprehensive_check") : t \in called}, {})
                    ELSE Effects({Op(t, "run_comprehensive_check") : t \in called}, {},
                                 {Failure(stage, t) : t \in called \cap failed})
                 /\ IF called \cap failed = {} THEN Return(stage) ELSE Exit1
    /\ UNCHANGED <<remote_mounts, guardVars, localDisk>>
    /\ KeepConfig

Next ==
    \/ Run
    \/ RunSystemChecks
    \/ LoadConfig
    \/ CheckSshTrustStandalone
    \/ CheckSshTrustNode
    \/ CheckOsPartitionsStandalone
    \/ CheckOsPartitionsNode
    \/ CheckMinioExistsStandalone
    \/ CheckMinioExistsNode
    \/ ConfigureFirewallStandalone
    \/ ConfigureFirewallLocal
    \/ ConfigureFirewallNode
    \/ InstallMinioStandalone
    \/ InstallMinioCluster
    \/ ConfigureMinioServiceStandalone
    \/ ConfigureMinioServiceCluster
    \/ RunHealthChecksStandalone
    \/ RunHealthChecksCluster

Spec == Init /\ [][Next]_vars

(***************************************************************************)
(* RemoteExecutor.execute_parallel                                         *)
(***************************************************************************)
MaxTasks == 3

MaxWorkers == 2

TaskHosts == {"node1", "node2"}

\* A task names at least its host and its command.
TaskLists ==
    UNION {[1..n -> [host : TaskHosts, command : {"uname -r"}]] : n \in 0..MaxTasks}

\* How the execute_command of a task ends.
TaskOutcomes == {"ok", "connection", "auth", "command", "raises"}

\* Every result reports success.
task_result_always_ok(outcome) == <<0, <<>>, <<>>>>

\* ... and the tuple reported then: the one execute_command returns, or the
\* one "except Exception" makes of an exception future.result() raises.
task_result(outcome) ==
    CASE outcome = "ok" -> <<0, <<>>, <<>>>>
      [] outcome = "connection" -> error_result("socket.timeout")
      [] outcome = "auth" -> error_result("AuthenticationException")
      [] outcome = "command" -> <<2, <<>>, <<>>>>
      [] outcome = "raises" -> <<1, <<>>, <<"TypeError">>>>

\* A dict keyed by the host of the task.
future_key_is_host(n, task) == task.host

\* The key of future_to_task: the future submit() returned for the n-th task,
\* a new object for each call.
future_key(n, task) == n

\* d[k] = v on a dict kept as the sequence of its <<key, value>> items.
dict_put(d, k, v) ==
    IF \E j \in 1..Len(d) : d[j][1] = k
    THEN [j \in 1..Len(d) |-> IF d[j][1] = k THEN <<k, v>> ELSE d[j]]
    ELSE Append(d, <<k, v>>)

\* The dict after the first n tasks were submitted; the value kept is the
\* position of the task in the list.
RECURSIVE submit_all(_, _)
submit_all(ts, n) ==
    IF n = 0 THEN <<>>
    ELSE dict_put(submit_all(ts, n - 1), future_key(n, ts[n]), n)

\* The call: ThreadPoolExecutor(max_workers) raises ValueError for a size
\* below 1; otherwise every task is submitted.
ParCall ==
    /\ par_pc = "idle"
    /\ \E ts \in TaskLists, w \in 0..MaxWorkers :
         /\ tasks' = ts
         /\ max_workers' = w
         /\ IF w <= 0
            THEN /\ par_pc' = "raised"
                 /\ UNCHANGED <<future_to_task, par_outcome>>
            ELSE /\ par_pc' = "pool"
                 /\ future_to_task' = submit_all(ts, Len(ts))
                 /\ par_outcome' = [i \in 1..Len(ts) |-> "pending"]
    /\ UNCHANGED <<par_running, par_done, results>>
    /\ UNCHANGED parOthers

\* ThreadPoolExecutor(max_workers): a task starts only on a free worker.
worker_free_always(running, workers) == TRUE

worker_free(running, workers) == Cardinality(running) < workers

\* A free worker takes the oldest queued task.
ParStart ==
    /\ par_pc = "pool"
    /\ worker_free(par_running, max_workers)
    /\ LET queued == {i \in 1..Len(tasks) : par_outcome[i] = "pending" /\ i \notin par_running}
       IN  /\ queued # {}
           /\ par_running' = par_running \cup {CHOOSE i \in queued : \A j \in queued : i <= j}
    /\ UNCHANGED <<par_pc, tasks, max_workers, future_to_task, par_outcome, par_done, results>>
    /\ UNCHANGED parOthers

\* The execute_command of a running task returns.
ParFinish ==
    /\ par_pc = "pool"
    /\ \E i \in par_running, outcome \in TaskOutcomes :
         /\ par_outcome' = [par_outcome EXCEPT ![i] = outcome]
         /\ par_running' = par_running \ {i}
         /\ par_done' = Append(par_done, i)
    /\ UNCHANGED <<par_pc, tasks, max_workers, future_to_task, results>>
    /\ UNCHANGED parOthers

\* The loop over future_to_task: future.result() of the next item, once that
\* future is done, is appended with its task.
ParCollect ==
    /\ par_pc = "pool"
    /\ Len(results) < Len(future_to_task)
    /\ LET n == future_to_task[Len(results) + 1][2]
       IN  /\ par_outcome[n] # "pending"
           /\ results' = Append(results, [task |-> tasks[n],
                                          result |-> task_result(par_outcome[n])])
    /\ UNCHANGED <<par_pc, tasks, max_workers, future_to_task, par_running, par_outcome,
                   par_done>>
    /\ UNCHANGED parOthers

\* The with block ends when every worker is done; the list is returned.
ParReturn ==
    /\ par_pc = "pool"
    /\ Len(results) = Len(future_to_task)
    /\ \A i \in 1..Len(tasks) : par_outcome[i] # "pending"
    /\ par_pc' = "returned"
    /\ UNCHANGED <<tasks, max_workers, future_to_task, par_running, par_outcome, par_done,
                   results>>
    /\ UNCHANGED parOthers

ParInit ==
    /\ proc_mounts = {<<sda1, "/">>}
    /\ DiskIdle
    /\ ExecIdle
    /\ RunIdle
    /\ LibIdle

ParNext ==
    \/ ParCall
    \/ ParStart
    \/ ParFinish
    \/ ParCollect
    \/ ParReturn

SpecPar == ParInit /\ [][ParNext]_vars

(***************************************************************************)
(* RemoteExecutor.setup_ssh_trust                                          *)
(***************************************************************************)
MaxTrustCalls == 3

\* The line of the local public key file, and a line of another key.
public_key == "ssh-rsa AAAAB3 root@deployer"

OtherKey == "ssh-rsa AAAAC4 admin@laptop"

\* pub_key_part in server_authorized_keys
key_in_store(store) == \E i \in 1..Len(store) : store[i] = public_key

\* How the presence check of a call ends: the store is read, or the connect,
\* the command or the decoding of its output raises.
ProbeOutcomes == {"read", "raises"}

\* The presence check returns True at once only when the store was read
\* and holds the key; an exception is logged and the call goes on.
check_finds_key(probe, store) == probe = "read" /\ key_in_store(store)

\* How the second connection of a call ends.
AddOutcomes == {"connect_raises", "mkdir_fails", "append_fails", "added"}

\* The steps of the second connection, in the order the code and the shell
\* run them: connect with the password; mkdir -p ~/.ssh && chmod 700 ~/.ssh;
\* echo '<public_key>' >> ~/.ssh/authorized_keys && chmod 600 ...
AddSteps == <<"connect", "mkdir", "chmod 700", "echo", "chmod 600">>

\* A second connection that appends the key before it creates the directory.
add_steps_append_first(outcome, echoed) ==
    IF outcome = "connect_raises" THEN <<"connect">>
    ELSE IF outcome = "mkdir_fails" THEN <<"connect", "echo", "mkdir">>
    ELSE <<"connect", "echo", "chmod 600", "mkdir", "chmod 700">>

\* The steps a second connection runs before it ends as outcome; a failed
\* append command has failed in its echo or, the line echoed, in its chmod.
add_steps(outcome, echoed) ==
    IF outcome = "connect_raises" THEN SubSeq(AddSteps, 1, 1)
    ELSE IF outcome = "mkdir_fails" THEN SubSeq(AddSteps, 1, 2)
    ELSE IF outcome = "append_fails" /\ ~echoed THEN SubSeq(AddSteps, 1, 4)
    ELSE AddSteps

TrustLogged(steps) ==
    trust_log \o [k \in 1..Len(steps) |-> [call |-> trust_calls, step |-> steps[k]]]

\* The call begins, with the same arguments every time. The local key pair
\* is generated only when the private key file does not exist, which can
\* fail.
TrustCall ==
    /\ trust_pc \in {"idle", "returned"}
    /\ trust_calls < MaxTrustCalls
    /\ IF trust_local = "missing"
       THEN \E keygen_ok \in BOOLEAN :
              /\ trust_log' = Append(trust_log, [call |-> trust_calls + 1, step |-> "ssh-keygen"])
              /\ IF keygen_ok
                 THEN trust_pc' = "check" /\ trust_ret' = trust_ret
                      /\ trust_local' = "generated"
                 ELSE trust_pc' = "returned" /\ trust_ret' = FALSE
                      /\ trust_local' = trust_local
       ELSE /\ trust_pc' = "check"
            /\ UNCHANGED <<trust_ret, trust_local, trust_log>>
    /\ trust_calls' = trust_calls + 1
    /\ trust_present' = key_in_store(authorized_keys)
    /\ trust_cmds' = <<>>
    /\ UNCHANGED <<authorized_keys, trust_password>>
    /\ UNCHANGED trustOthers

\* The presence check: connect with the password, cat the store. Without a
\* password the connect raises.
TrustCheck ==
    /\ trust_pc = "check"
    /\ \E probe \in (IF trust_password = NoPassword THEN {"raises"} ELSE ProbeOutcomes) :
         IF check_finds_key(probe, authorized_keys)
         THEN trust_pc' = "returned" /\ trust_ret' = TRUE
         ELSE trust_pc' = "add" /\ trust_ret' = trust_ret
    /\ trust_log' = TrustLogged(<<"check">>)
    /\ UNCHANGED <<authorized_keys, trust_calls, trust_password, trust_present, trust_cmds,
                   trust_local>>
    /\ UNCHANGED trustOthers

\* The key is added over a second connection; without a password the call
\* returns False before connecting.
TrustAdd ==
    /\ trust_pc = "add"
    /\ IF trust_password = NoPassword
       THEN /\ trust_ret' = FALSE
            /\ UNCHANGED <<authorized_keys, trust_cmds, trust_log>>
       ELSE \E outcome \in AddOutcomes, echoed \in BOOLEAN :
              /\ trust_ret' = (outcome = "added")
              /\ trust_cmds' =
                   (IF outcome = "connect_raises" THEN <<>>
                    ELSE IF outcome = "mkdir_fails" THEN <<"mkdir">>
                    ELSE <<"mkdir", "append">>)
              /\ trust_log' = TrustLogged(add_steps(outcome, echoed))
              /\ authorized_keys' =
                   (IF outcome = "added" \/ (outcome = "append_fails" /\ echoed)
                    THEN Append(authorized_keys, public_key)
                    ELSE authorized_keys)
    /\ trust_pc' = "returned"
    /\ UNCHANGED <<trust_calls, trust_password, trust_present, trust_local>>
    /\ UNCHANGED trustOthers

TrustInit ==
    /\ proc_mounts = {<<sda1, "/">>}
    /\ DiskIdle
    /\ ExecIdle
    /\ RunIdle
    /\ ParIdle
    /\ FwIdle
    /\ HealthIdle
    /\ MainIdle
    /\ SessIdle
    /\ MountIdle
    /\ SvcIdle
    /\ RhIdle
    /\ RfIdle
    /\ CtIdle
    /\ authorized_keys \in {<<>>, <<OtherKey>>}
    /\ trust_pc = "idle"
    /\ trust_calls = 0
    /\ trust_password \in Passwords
    /\ trust_present = FALSE
    /\ trust_cmds = <<>>
    /\ trust_local \in {"missing", "existing"}
    /\ trust_log = <<>>
    /\ trust_ret = FALSE

TrustNext ==
    \/ TrustCall
    \/ TrustCheck
    \/ TrustAdd

SpecTrust == TrustInit /\ [][TrustNext]_vars

(***************************************************************************)
(* DiskManager.add_to_fstab, called again and again with the same arguments *)
(***************************************************************************)
MaxFstabCalls == 3

\* The line of the root file system, as the installer wrote it.
RootLine == <<sda1, "/", "ext4", "defaults", "0", "1">>

\* /etc/fstab before the first call.
FstabFiles ==
    {<<>>,
     <<RootLine>>,
     <<RootLine, <<sdb1, "/mnt/old", "ext4", "defaults", "0", "2">>>>,
     <<RootLine, <<sdb1, "none", "swap">>>>}

FstabMountPoints == {DataMountPoint, SpacedMountPoint}

FstabInit ==
    /\ proc_mounts = {<<sda1, "/">>}
    /\ fstab \in FstabFiles
    /\ formatted = {}
    /\ \E device \in Devices, mount_point \in FstabMountPoints :
         disk_call = [op |-> "add_to_fstab", device |-> device,
                      mount_point |-> mount_point, format_disk |-> FALSE]
    /\ disk_trace = <<>>
    /\ disk_ret = FALSE
    /\ ExecIdle
    /\ RunIdle
    /\ LibIdle

\* One more call of add_to_fstab(device, mount_point, 'ext4'); the file can
\* be read and written.
AddToFstab ==
    /\ disk_call.op = "add_to_fstab"
    /\ Len(disk_trace) < MaxFstabCalls
    /\ fstab' = add_to_fstab(fstab, disk_call.device, disk_call.mount_point, "ext4")
    /\ disk_trace' = Append(disk_trace, "add_to_fstab")
    /\ disk_ret' = TRUE
    /\ UNCHANGED <<proc_mounts, formatted, disk_call>>
    /\ UNCHANGED <<execVars, runVars, libVars>>

FstabNext == AddToFstab

SpecFstab == FstabInit /\ [][FstabNext]_vars


(***************************************************************************)
(* FirewallManager.configure_firewall and the functions it calls           *)
(* (core/firewall.py).  A command is recorded with the number of the call  *)
(* that issued it, its program, what it does and the port it is about      *)
(* (NoPort when it is about none).                                         *)
(***************************************************************************)
MaxFwCalls == 2

NoPort == 0

PortLists == {<<>>, <<9000>>, <<9000, 9001>>}

InitialRules == {<<>>, <<9000>>}

FwCmd(prog, verb, port) == [call |-> fw_calls + 1, prog |-> prog, verb |-> verb, port |-> port]

\* detect_firewall_type: firewalld is looked for first, then iptables.
detect_firewall_type(installed) ==
    IF "firewalld" \in installed THEN "firewalld"
    ELSE IF "iptables" \in installed THEN "iptables"
    ELSE "unknown"

detect_cmds(installed) ==
    IF "firewalld" \in installed THEN <<FwCmd("which", "firewalld", NoPort)>>
    ELSE <<FwCmd("which", "firewalld", NoPort), FwCmd("which", "iptables", NoPort)>>

\* is_firewall_running: the status probe of each backend; an unknown backend
\* is not running and is not probed.
status_cmds(type) ==
    IF type = "firewalld" THEN <<FwCmd("systemctl", "is-active", NoPort)>>
    ELSE IF type = "iptables" THEN <<FwCmd("iptables", "status", NoPort)>>
    ELSE <<>>

is_firewall_running_always(type, active) == TRUE

is_firewall_running(type, active) ==
    IF type \in {"firewalld", "iptables"} THEN active ELSE FALSE

has_rule(rules, port) == \E k \in 1..Len(rules) : rules[k] = port

\* check_port_open: firewalld lists the ports of the default zone and, when
\* the port is not there, of the active zone; iptables lists the INPUT chain.
\* A failing command makes the answer False.
query_cmds(type, rules, port, q) ==
    IF type = "firewalld"
    THEN IF q = "ok" /\ ~has_rule(rules, port)
         THEN <<FwCmd("firewall-cmd", "query", port), FwCmd("firewall-cmd", "zones", NoPort),
                FwCmd("firewall-cmd", "query", port)>>
         ELSE <<FwCmd("firewall-cmd", "query", port)>>
    ELSE <<FwCmd("iptables", "query", port)>>

\* The protocol argument: configure_firewall is called with its default.
protocol == "tcp"

\* str.upper
upper(s) == IF s = "tcp" THEN "TCP" ELSE s

\* The line of "iptables -L INPUT -n -v" for a rule that open_port added:
\* target, protocol column and match ("ACCEPT tcp -- ... tcp dpt:<port>").
iptables_line(port) == [target |-> "ACCEPT", prot |-> "tcp", dpt |-> port]

\* protocol.upper() in line and f"dpt:{port}" in line and "ACCEPT" in line
line_matches(line, port, proto) ==
    /\ upper(proto) = line.prot
    /\ line.dpt = port
    /\ line.target = "ACCEPT"

\* check_port_open: the firewalld branch compares "<port>/<protocol>" with the
\* listed ports, the iptables branch matches the lines of the INPUT chain.
check_port_open(type, rules, port, q) ==
    IF type = "firewalld" THEN q = "ok" /\ has_rule(rules, port)
    ELSE IF type = "iptables"
    THEN q = "ok" /\ \E k \in 1..Len(rules) :
                       line_matches(iptables_line(rules[k]), port, protocol)
    ELSE FALSE

\* open_port with permanent = True: the rule is added, then saved; the first
\* failing command ends it with False.
open_cmds(type, port, o, saver) ==
    IF type = "firewalld"
    THEN IF o = "add_fails" THEN <<FwCmd("firewall-cmd", "open", port)>>
         ELSE <<FwCmd("firewall-cmd", "open", port), FwCmd("firewall-cmd", "save", port)>>
    ELSE IF o = "add_fails" THEN <<FwCmd("iptables", "open", port)>>
         ELSE <<FwCmd("iptables", "open", port), FwCmd(saver, "save", NoPort)>>

\* firewalld keeps one entry for a port however often it is added; iptables -A
\* appends a rule each time.
open_rules(type, rules, port, o) ==
    IF o = "add_fails" THEN rules
    ELSE IF type = "firewalld" /\ has_rule(rules, port) THEN rules
    ELSE Append(rules, port)

open_port(o) == o = "ok"

QueryOutcomes == {"ok", "error"}

OpenOutcomes == {"ok", "add_fails", "save_fails"}

Savers == {"service", "iptables-save"}

\* configure_firewall up to its loop: the backend is detected unless a former
\* call did it, and an inactive backend ends the call with True.
FwCall ==
    /\ fw_pc \in {"idle", "done"}
    /\ fw_calls < MaxFwCalls
    /\ \E ports \in PortLists :
         LET type == IF firewall_type = "None" THEN detect_firewall_type(fw_installed)
                     ELSE firewall_type
             det  == IF firewall_type = "None" THEN detect_cmds(fw_installed) ELSE <<>>
         IN  /\ firewall_type' = type
             /\ fw_ports' = ports
             /\ fw_cmds' = fw_cmds \o det \o status_cmds(type)
             /\ IF ~is_firewall_running(type, fw_active)
                THEN /\ fw_pc' = "done"
                     /\ fw_ret' = "True"
                     /\ fw_calls' = fw_calls + 1
                     /\ fw_hist' = Append(fw_hist, [ports |-> ports, active |-> FALSE,
                                                    ret |-> "True"])
                     /\ UNCHANGED <<fw_i, fw_success>>
                ELSE /\ fw_pc' = "loop"
                     /\ fw_ret' = "none"
                     /\ fw_i' = 1
                     /\ fw_success' = TRUE
                     /\ UNCHANGED <<fw_calls, fw_hist>>
    /\ UNCHANGED <<fw_installed, fw_active, fw_rules, fw_saver, fw_log>>
    /\ UNCHANGED fwOthers

\* One turn of the loop: the port is queried and, unless found open, opened.
FwPort ==
    /\ fw_pc = "loop"
    /\ fw_i <= Len(fw_ports)
    /\ \E q \in QueryOutcomes, o \in OpenOutcomes :
         LET port == fw_ports[fw_i]
             qc   == query_cmds(firewall_type, fw_rules, port, q)
             found == check_port_open(firewall_type, fw_rules, port, q)
             turn(opened) == [call |-> fw_calls + 1, port |-> port,
                              was_open |-> has_rule(fw_rules, port), query |-> q,
                              found |-> found, opened |-> opened]
         IN  IF found
             THEN /\ fw_cmds' = fw_cmds \o qc
                  /\ fw_log' = Append(fw_log, turn("none"))
                  /\ UNCHANGED <<fw_rules, fw_success>>
             ELSE /\ fw_cmds' = fw_cmds \o qc \o open_cmds(firewall_type, port, o, fw_saver)
                  /\ fw_rules' = open_rules(firewall_type, fw_rules, port, o)
                  /\ fw_success' = (fw_success /\ open_port(o))
                  /\ fw_log' = Append(fw_log, turn(o))
    /\ fw_i' = fw_i + 1
    /\ UNCHANGED <<fw_pc, firewall_type, fw_installed, fw_active, fw_saver, fw_ports,
                   fw_calls, fw_ret, fw_hist>>
    /\ UNCHANGED fwOthers

FwReturn ==
    /\ fw_pc = "loop"
    /\ fw_i > Len(fw_ports)
    /\ fw_pc' = "done"
    /\ fw_ret' = (IF fw_success THEN "True" ELSE "False")
    /\ fw_calls' = fw_calls + 1
    /\ fw_hist' = Append(fw_hist, [ports |-> fw_ports, active |-> TRUE,
                                   ret |-> IF fw_success THEN "True" ELSE "False"])
    /\ UNCHANGED <<firewall_type, fw_installed, fw_active, fw_rules, fw_saver, fw_ports,
                   fw_i, fw_success, fw_cmds, fw_log>>
    /\ UNCHANGED fwOthers

FwInit ==
    /\ proc_mounts = {<<sda1, "/">>}
    /\ DiskIdle
    /\ ExecIdle
    /\ RunIdle
    /\ ParIdle
    /\ TrustIdle
    /\ HealthIdle
    /\ MainIdle
    /\ SessIdle
    /\ MountIdle
    /\ SvcIdle
    /\ RhIdle
    /\ RfIdle
    /\ CtIdle
    /\ fw_pc = "idle"
    /\ firewall_type = "None"
    /\ fw_installed \in SUBSET {"firewalld", "iptables"}
    /\ fw_active \in BOOLEAN
    /\ fw_rules \in InitialRules
    /\ fw_saver \in Savers
    /\ fw_ports = <<>>
    /\ fw_i = 0
    /\ fw_success = TRUE
    /\ fw_calls = 0
    /\ fw_cmds = <<>>
    /\ fw_ret = "none"
    /\ fw_log = <<>>
    /\ fw_hist = <<>>

FwNext == FwCall \/ FwPort \/ FwReturn

SpecFw == FwInit /\ [][FwNext]_vars


(***************************************************************************)
(* HealthChecker.run_comprehensive_check (core/health.py).  Each probe is  *)
(* a step; what a probe finds is the host's answer, any boolean.           *)
(***************************************************************************)
Photos == [name |-> "photos", policy |-> "public", quota |-> 5]

Logs == [name |-> "logs", policy |-> "private", quota |-> 0]

\* A bucket configuration without a name.
Nameless == [name |-> "", policy |-> "private", quota |-> 5]

BucketLists == {<<>>, <<Photos>>, <<Photos, Logs>>, <<Nameless, Photos>>}

\* What the mc commands for one bucket do: mb and policy succeed or fail, the
\* quota command succeeds, fails, fails with the known warning, or raises.
BucketEnvs ==
    [mb : {"ok", "fails"}, policy : {"ok", "fails"},
     quota : {"ok", "fails", "warning", "raises"}]

McStep(cmd, bucket, outcome) == [cmd |-> cmd, bucket |-> bucket, outcome |-> outcome]

\* A loop body in which a failed mb ends the provisioning.
bucket_steps_mb_fatal(b, e) ==
    IF b.name = "" THEN [steps |-> <<>>, raised |-> FALSE]
    ELSE LET mb == <<McStep("mb", b.name, e.mb)>>
             pol == <<McStep("policy " \o b.policy, b.name, e.policy)>>
         IN  IF e.mb = "fails" THEN [steps |-> mb, raised |-> TRUE]
             ELSE IF e.policy = "fails" THEN [steps |-> mb \o pol, raised |-> TRUE]
             ELSE IF b.quota > 0
             THEN [steps |-> mb \o pol \o <<McStep("quota", b.name, e.quota)>>,
                   raised |-> FALSE]
             ELSE [steps |-> mb \o pol, raised |-> FALSE]

\* The body of the loop over the buckets: a configuration without a name is
\* skipped; mb runs without check, policy with check=True, the quota command
\* only for a quota above 0 and inside its own try.
bucket_steps(b, e) ==
    IF b.name = "" THEN [steps |-> <<>>, raised |-> FALSE]
    ELSE LET mb == <<McStep("mb", b.name, e.mb)>>
             pol == <<McStep("policy " \o b.policy, b.name, e.policy)>>
         IN  IF e.policy = "fails" THEN [steps |-> mb \o pol, raised |-> TRUE]
             ELSE IF b.quota > 0
             THEN [steps |-> mb \o pol \o <<McStep("quota", b.name, e.quota)>>,
                   raised |-> FALSE]
             ELSE [steps |-> mb \o pol, raised |-> FALSE]

RECURSIVE bucket_loop(_, _, _, _)
bucket_loop(buckets, env, i, steps) ==
    IF i > Len(buckets) THEN [ret |-> "True", steps |-> steps]
    ELSE LET r == bucket_steps(buckets[i], env[i])
         IN  IF r.raised THEN [ret |-> "False", steps |-> steps \o r.steps]
             ELSE bucket_loop(buckets, env, i + 1, steps \o r.steps)

\* create_buckets: [ret, steps], where mc and alias say whether "mc --version"
\* and "mc alias set" succeed.
create_buckets(buckets, mc, alias, env) ==
    LET version == McStep("version", "", IF mc THEN "ok" ELSE "fails")
        set == McStep("alias", "", IF alias THEN "ok" ELSE "fails")
    IN  IF ~mc THEN [ret |-> "False", steps |-> <<version>>]
        ELSE IF buckets = <<>> THEN [ret |-> "True", steps |-> <<version>>]
        ELSE IF ~alias THEN [ret |-> "False", steps |-> <<version, set>>]
        ELSE bucket_loop(buckets, env, 1, <<version, set>>)

\* Step 7: the overall status is computed from three of the entries.
overall_status_with_console(r) ==
    r.service_running /\ r.port_listening /\ r.console_port_listening /\ r.health_api

overall_status(r) == r.service_running /\ r.port_listening /\ r.health_api

HcKeep ==
    /\ UNCHANGED <<pl_pc, retry_count, pl_attempt, pl_log, pl_ret>>
    /\ UNCHANGED healthOthers

\* One probe: its finding is stored under its key.
HcProbe(key, next) ==
    /\ \E found \in BOOLEAN : hc_results' = [hc_results EXCEPT ![key] = found]
    /\ hc_trace' = Append(hc_trace, key)
    /\ hc_pc' = next
    /\ UNCHANGED <<hc_buckets, hc_created, hc_steps>>
    /\ HcKeep

HcCall ==
    /\ hc_pc = "idle"
    /\ hc_pc' = "service_running"
    /\ hc_results' = NoResults
    /\ hc_trace' = <<>>
    /\ hc_buckets' \in BucketLists
    /\ hc_created' = "not called"
    /\ hc_steps' = <<>>
    /\ HcKeep

HcServiceRunning ==
    /\ hc_pc = "service_running"
    /\ HcProbe("service_running", "port_listening")

HcPortListening ==
    /\ hc_pc = "port_listening"
    /\ HcProbe("port_listening", "console_port_listening")

HcConsolePortListening ==
    /\ hc_pc = "console_port_listening"
    /\ HcProbe("console_port_listening", "health_api")

HcHealthApi ==
    /\ hc_pc = "health_api"
    /\ HcProbe("health_api", "mc_available")

HcMcAvailable ==
    /\ hc_pc = "mc_available"
    /\ HcProbe("mc_available", "bucket_access")

\* A step 6 that runs the smoke test whenever the client tool is available.
HcBucketAccessWithoutApi ==
    /\ hc_pc = "bucket_access"
    /\ IF hc_results.mc_available
       THEN /\ \E found \in BOOLEAN : hc_results' = [hc_results EXCEPT !.bucket_access = found]
            /\ hc_trace' = Append(hc_trace, "bucket_access")
       ELSE /\ hc_results' = [hc_results EXCEPT !.bucket_access = FALSE]
            /\ UNCHANGED hc_trace
    /\ hc_pc' = "overall_status"
    /\ UNCHANGED <<hc_buckets, hc_created, hc_steps>>
    /\ HcKeep

\* Step 6: the smoke test runs only with the client tool and a healthy API.
HcBucketAccess ==
    /\ hc_pc = "bucket_access"
    /\ IF hc_results.mc_available /\ hc_results.health_api
       THEN /\ \E found \in BOOLEAN : hc_results' = [hc_results EXCEPT !.bucket_access = found]
            /\ hc_trace' = Append(hc_trace, "bucket_access")
       ELSE /\ hc_results' = [hc_results EXCEPT !.bucket_access = FALSE]
            /\ UNCHANGED hc_trace
    /\ hc_pc' = "overall_status"
    /\ UNCHANGED <<hc_buckets, hc_created, hc_steps>>
    /\ HcKeep

\* Steps 7 and 8 and the return: create_buckets is called for a healthy
\* target and a non-empty bucket list, and its outcome is only logged.
HcOverallStatus ==
    /\ hc_pc = "overall_status"
    /\ hc_results' = [hc_results EXCEPT !.overall_status = overall_status(hc_results)]
    /\ IF overall_status(hc_results) /\ hc_buckets # <<>>
       THEN /\ \E mc \in BOOLEAN, alias \in BOOLEAN,
                    env \in [1..Len(hc_buckets) -> BucketEnvs] :
                   LET r == create_buckets(hc_buckets, mc, alias, env)
                   IN  /\ hc_created' = r.ret
                       /\ hc_steps' = r.steps
            /\ hc_trace' = Append(hc_trace, "create_buckets")
       ELSE UNCHANGED <<hc_created, hc_steps, hc_trace>>
    /\ hc_pc' = "returned"
    /\ UNCHANGED hc_buckets
    /\ HcKeep

HealthInit ==
    /\ proc_mounts = {<<sda1, "/">>}
    /\ DiskIdle
    /\ ExecIdle
    /\ RunIdle
    /\ LibIdle

HealthNext ==
    \/ HcCall
    \/ HcServiceRunning
    \/ HcPortListening
    \/ HcConsolePortListening
    \/ HcHealthApi
    \/ HcMcAvailable
    \/ HcBucketAccess
    \/ HcOverallStatus

SpecHealth == HealthInit /\ [][HealthNext]_vars


(***************************************************************************)
(* HealthChecker.check_port_listening (core/health.py): the retry loop     *)
(* around the connect.  pl_log records each connect with how it ended and  *)
(* each sleep with its length.                                             *)
(***************************************************************************)
MaxRetry == 5

\* The default of the retry_delay argument, in seconds.
retry_delay == 5

ConnectOutcomes == {"connected", "refused", "exception"}

\* "if attempt < retry_count - 1": another attempt follows this one.
not_last_attempt_or_last(attempt, n) == attempt < n

not_last_attempt(attempt, n) == attempt < n - 1

PlKeep ==
    /\ UNCHANGED <<hc_pc, hc_results, hc_trace, hc_buckets, hc_created, hc_steps>>
    /\ UNCHANGED healthOthers

\* The call: range(retry_count) is empty for a count of 0 and the function
\* returns False at once.
PlCall ==
    /\ pl_pc = "idle"
    /\ \E n \in 0..MaxRetry :
         /\ retry_count' = n
         /\ pl_pc' = IF n = 0 THEN "returned" ELSE "attempt"
    /\ pl_attempt' = 0
    /\ pl_log' = <<>>
    /\ pl_ret' = FALSE
    /\ PlKeep

\* One turn of the loop up to its sleep: connect_ex, True at once on 0.
PlAttempt ==
    /\ pl_pc = "attempt"
    /\ \E o \in ConnectOutcomes :
         /\ pl_log' = Append(pl_log, [ev |-> "connect", outcome |-> o, secs |-> 0])
         /\ IF o = "connected"
            THEN /\ pl_ret' = TRUE
                 /\ pl_pc' = "returned"
            ELSE /\ pl_ret' = FALSE
                 /\ pl_pc' = IF not_last_attempt(pl_attempt, retry_count)
                             THEN "wait" ELSE "returned"
    /\ UNCHANGED <<retry_count, pl_attempt>>
    /\ PlKeep

\* time.sleep(retry_delay), then the next turn.
PlWait ==
    /\ pl_pc = "wait"
    /\ pl_log' = Append(pl_log, [ev |-> "sleep", outcome |-> "", secs |-> retry_delay])
    /\ pl_attempt' = pl_attempt + 1
    /\ pl_pc' = "attempt"
    /\ UNCHANGED <<retry_count, pl_ret>>
    /\ PlKeep

ProbeInit ==
    /\ proc_mounts = {<<sda1, "/">>}
    /\ DiskIdle
    /\ ExecIdle
    /\ RunIdle
    /\ LibIdle

ProbeNext == PlCall \/ PlAttempt \/ PlWait

SpecProbe == ProbeInit /\ [][ProbeNext]_vars


(***************************************************************************)
(* main (deploy.py): run() inside try, with the two handlers.  exit(1) in  *)
(* a stage and sys.exit(0) after run() raise SystemExit, which neither     *)
(* handler catches.                                                        *)
(***************************************************************************)
InStage == pc \in {RunStages[k] : k \in 1..Len(RunStages)}

\* What the handlers of main leave alone.
MainKeep ==
    /\ UNCHANGED <<config, dry_run, elided, node_idx, started, returned, remote_mounts,
                   nodes_with_minio, nodes_without_minio, unprobed, reported, ops, dry_log,
                   failures, fan_calls>>
    /\ UNCHANGED <<diskVars, execVars, parVars, trustVars, fwVars, healthVars, sessVars,
                   ctVars, mountVars, svcVars, rhVars, rfVars>>

\* "except Exception": an exception escapes the stage run() is in, such as
\* the ValueError of get_ssh_params for an empty node descriptor.
UncaughtException ==
    /\ InStage
    /\ main_exc' = "Exception"
    /\ pc' = "exit"
    /\ exit_code' = 1
    /\ MainKeep

\* "except KeyboardInterrupt": the operator interrupts the run.
KeyboardInterrupt ==
    /\ InStage
    /\ main_exc' = "KeyboardInterrupt"
    /\ pc' = "exit"
    /\ exit_code' = 1
    /\ MainKeep

MainNext ==
    \/ Next
    \/ UncaughtException
    \/ KeyboardInterrupt

SpecMain == Init /\ [][MainNext]_vars

\* The pipeline with targets whose existence probe cannot be executed.
GuardNext ==
    \/ Next
    \/ CheckMinioExistsStandaloneNotExecuted
    \/ CheckMinioExistsNodeNotExecuted

SpecGuard == Init /\ [][GuardNext]_vars


(***************************************************************************)
(* The transport session of execute_command, upload_file and download_file *)
(* (core/remote.py).  Each call creates its own paramiko.SSHClient; a      *)
(* client is "new" until a connect succeeds, then "open", and "closed"     *)
(* after client.close().                                                   *)
(***************************************************************************)
MaxSessCalls == 3

SessOps == {"execute_command", "upload_file", "download_file"}

NewClient(op) == [op |-> op, client |-> "new", sftp |-> "none"]

\* Where the work after the connect can raise: execute_command in
\* exec_command or while reading; a transfer in open_sftp or in put/get.
WorkFailures(op) ==
    IF op = "execute_command" THEN {"exec_command", "read"} ELSE {"open_sftp", "transfer"}

\* The client once the work has raised: the handler only logs and returns.
client_after_failure(c, at) ==
    [c EXCEPT !.sftp = IF at = "transfer" THEN "open" ELSE @]

\* The client at the end of the try block: sftp.close() and client.close().
client_after_success(c) ==
    [c EXCEPT !.client = "closed", !.sftp = IF c.op = "execute_command" THEN "none" ELSE "closed"]

\* client = paramiko.SSHClient()
SessCall ==
    /\ sess_pc \in {"idle", "returned"}
    /\ Len(sess_clients) < MaxSessCalls
    /\ \E op \in SessOps :
         /\ sess_op' = op
         /\ sess_clients' = Append(sess_clients, NewClient(op))
    /\ sess_pc' = "connect"
    /\ sess_ret' = FALSE
    /\ UNCHANGED sessOthers

\* The connects of the call: one of them succeeds, or the last raises and
\* the handler returns the failure.
SessConnect ==
    /\ sess_pc = "connect"
    /\ \E ok \in BOOLEAN :
         IF ok
         THEN /\ sess_clients' = [sess_clients EXCEPT ![Len(sess_clients)].client = "open"]
              /\ sess_pc' = "connected"
         ELSE /\ sess_pc' = "returned"
              /\ UNCHANGED sess_clients
    /\ UNCHANGED <<sess_op, sess_ret>>
    /\ UNCHANGED sessOthers

\* The work succeeds: the session is closed and success is returned.
SessWork ==
    /\ sess_pc = "connected"
    /\ sess_clients' = [sess_clients EXCEPT
                          ![Len(sess_clients)] = client_after_success(@)]
    /\ sess_ret' = TRUE
    /\ sess_pc' = "returned"
    /\ UNCHANGED sess_op
    /\ UNCHANGED sessOthers

\* The work raises: "except Exception" returns the failure.
SessWorkFails ==
    /\ sess_pc = "connected"
    /\ \E at \in WorkFailures(sess_op) :
         sess_clients' = [sess_clients EXCEPT
                            ![Len(sess_clients)] = client_after_failure(@, at)]
    /\ sess_ret' = FALSE
    /\ sess_pc' = "returned"
    /\ UNCHANGED sess_op
    /\ UNCHANGED sessOthers

SessInit ==
    /\ proc_mounts = {<<sda1, "/">>}
    /\ DiskIdle
    /\ ExecIdle
    /\ RunIdle
    /\ LibIdle

SessNext == SessCall \/ SessConnect \/ SessWork \/ SessWorkFails

SpecSess == SessInit /\ [][SessNext]_vars


(***************************************************************************)
(* RemoteExecutor.check_ssh_trust (core/remote.py).  The host's store is   *)
(* authorized_keys; the call only reads it.                                *)
(***************************************************************************)
TrustKeyFiles == {NoKey, <<"~", ".ssh", "id_rsa">>, <<"~", ".ssh", "id_rsa", ".pub">>}

PublicKeyFiles == {"missing", "empty", "key", "unreadable"}

Stores == {<<>>, <<OtherKey>>, <<OtherKey, public_key>>}

\* public_key_content: the stripped text of the public key file, "" when
\* there is none (None) or the file is empty.
public_key_content(args, files) ==
    IF args.key_file # NoKey /\ files.public = "key" THEN public_key ELSE ""

\* How a connect can end on a host that accepts the credential or not.
connect_outcomes(accepted) ==
    IF accepted THEN {"ok", "socket.timeout"}
    ELSE {"AuthenticationException", "socket.timeout"}

\* Step 3 reports a password session as trust.
unconfirmed_password_session_trusts(outcome) == IF outcome = "ok" THEN "True" ELSE "False"

\* Step 3: a password session without a public key to look for is no trust.
unconfirmed_password_session(outcome) == "False"

CtSession(auth, outcome) == [auth |-> auth, outcome |-> outcome]

CtKeep ==
    /\ UNCHANGED <<ct_args, ct_files, ct_host>>
    /\ UNCHANGED ctOthers

\* The call up to the first connect. Without key_file and password nothing
\* is tried; a public key file that cannot be read raises into the outer
\* handler.
CtCall ==
    /\ ct_pc = "idle"
    /\ IF ct_args.key_file = NoKey /\ ct_args.password = NoPassword
       THEN ct_pc' = "store" /\ ct_ret' = ct_ret
       ELSE IF ct_args.key_file # NoKey /\ ct_files.public = "unreadable"
       THEN IF caught("PermissionError")
            THEN ct_pc' = "returned" /\ ct_ret' = "False"
            ELSE ct_pc' = "raised" /\ ct_ret' = ct_ret
       ELSE ct_pc' = "key" /\ ct_ret' = ct_ret
    /\ UNCHANGED ct_sessions
    /\ CtKeep

\* The connect with the private key of key_file, agent and discovery off.
CtKeyConnect ==
    /\ ct_pc = "key"
    /\ IF ct_args.key_file # NoKey /\ ct_files.private
       THEN \E o \in connect_outcomes(ct_host.key) :
              /\ ct_sessions' = Append(ct_sessions, CtSession("key", o))
              /\ IF o = "ok"
                 THEN ct_pc' = "returned" /\ ct_ret' = "True"
                 ELSE ct_pc' = "default" /\ ct_ret' = ct_ret
       ELSE /\ ct_pc' = "default"
            /\ UNCHANGED <<ct_sessions, ct_ret>>
    /\ CtKeep

\* The connect with agent and key discovery, made when a default identity
\* file exists; password=None.
CtDefaultConnect ==
    /\ ct_pc = "default"
    /\ IF ct_files.default
       THEN \E o \in connect_outcomes(ct_host.default) :
              /\ ct_sessions' = Append(ct_sessions, CtSession("default", o))
              /\ IF o = "ok"
                 THEN ct_pc' = "returned" /\ ct_ret' = "True"
                 ELSE ct_pc' = "store" /\ ct_ret' = ct_ret
       ELSE /\ ct_pc' = "store"
            /\ UNCHANGED <<ct_sessions, ct_ret>>
    /\ CtKeep

\* Step 2: with a public key and a password, a password session reads the
\* store and looks for the key.
CtStoreCheck ==
    /\ ct_pc = "store"
    /\ IF public_key_content(ct_args, ct_files) # "" /\ ct_args.password # NoPassword
       THEN \E o \in connect_outcomes(ct_host.password), probe \in ProbeOutcomes :
              /\ ct_sessions' = Append(ct_sessions, CtSession("password", o))
              /\ IF o = "ok" /\ check_finds_key(probe, authorized_keys)
                 THEN ct_pc' = "returned" /\ ct_ret' = "True"
                 ELSE ct_pc' = "password" /\ ct_ret' = ct_ret
       ELSE /\ ct_pc' = "password"
            /\ UNCHANGED <<ct_sessions, ct_ret>>
    /\ CtKeep

\* Steps 3 and 4: with a password and no public key, a password session is
\* tried; the call returns False.
CtPasswordConnect ==
    /\ ct_pc = "password"
    /\ IF ct_args.password # NoPassword /\ public_key_content(ct_args, ct_files) = ""
       THEN \E o \in connect_outcomes(ct_host.password) :
              /\ ct_sessions' = Append(ct_sessions, CtSession("password", o))
              /\ ct_ret' = unconfirmed_password_session(o)
       ELSE /\ ct_ret' = "False"
            /\ UNCHANGED ct_sessions
    /\ ct_pc' = "returned"
    /\ CtKeep

CtInit ==
    /\ proc_mounts = {<<sda1, "/">>}
    /\ DiskIdle
    /\ ExecIdle
    /\ RunIdle
    /\ ParIdle
    /\ FwIdle
    /\ HealthIdle
    /\ MainIdle
    /\ SessIdle
    /\ MountIdle
    /\ SvcIdle
    /\ RhIdle
    /\ RfIdle
    /\ authorized_keys \in Stores
    /\ trust_pc = "idle"
    /\ trust_calls = 0
    /\ trust_password = NoPassword
    /\ trust_present = FALSE
    /\ trust_cmds = <<>>
    /\ trust_local = "existing"
    /\ trust_log = <<>>
    /\ trust_ret = FALSE
    /\ ct_pc = "idle"
    /\ ct_args \in [key_file : TrustKeyFiles, password : Passwords]
    /\ ct_files \in [private : BOOLEAN, public : PublicKeyFiles, default : BOOLEAN]
    /\ ct_host \in [key : BOOLEAN, default : BOOLEAN, password : BOOLEAN]
    /\ ct_sessions = <<>>
    /\ ct_ret = "none"

CtNext ==
    \/ CtCall
    \/ CtKeyConnect
    \/ CtDefaultConnect
    \/ CtStoreCheck
    \/ CtPasswordConnect

SpecCt == CtInit /\ [][CtNext]_vars


(***************************************************************************)
(* The trust stage of run() together with setup_ssh_trust, the function it *)
(* calls: a behaviour is a run of the pipeline or calls of the function.   *)
(***************************************************************************)
TrustStageInit == Init \/ TrustInit

TrustStageNext ==
    \/ trust_calls = 0 /\ Next
    \/ pc = "init" /\ TrustNext

SpecTrustStage == TrustStageInit /\ [][TrustStageNext]_vars


(***************************************************************************)
(* DiskManager.mount_disk, called repeatedly with the same arguments       *)
(***************************************************************************)
MaxMountCalls == 2

MountPoints == {DataMountPoint, SlashedMountPoint}

\* What the mount command does when nothing is mounted there yet.
MountOutcomes == {"ok", "fails"}

MountInit ==
    /\ proc_mounts \in MountTables
    /\ fstab = <<>>
    /\ formatted = {}
    /\ \E device \in Devices, mount_point \in MountPoints :
         disk_call = [op |-> "mount_disk", device |-> device,
                      mount_point |-> mount_point, format_disk |-> FALSE]
    /\ disk_trace = <<>>
    /\ disk_ret = FALSE
    /\ ExecIdle
    /\ RunIdle
    /\ LibIdle

\* One more call of mount_disk(device, mount_point).
MountDisk ==
    /\ disk_call.op = "mount_disk"
    /\ Len(mount_log) < MaxMountCalls
    /\ \E o \in MountOutcomes :
        LET found == mount_found(proc_mounts, disk_call.device, disk_call.mount_point)
            busy == mount_busy(proc_mounts, disk_call.device, disk_call.mount_point)
            ok == found \/ (o = "ok" /\ ~busy)
        IN  /\ mount_log' = Append(mount_log, [cmd |-> ~found, ret |-> ok])
            /\ proc_mounts' = IF ok
                              THEN mount_disk(proc_mounts, disk_call.device,
                                              disk_call.mount_point)
                              ELSE proc_mounts
            /\ disk_ret' = ok
    /\ disk_trace' = Append(disk_trace, "mount_disk")
    /\ UNCHANGED <<fstab, formatted, disk_call>>
    /\ UNCHANGED <<execVars, runVars>>
    /\ UNCHANGED <<parVars, trustVars, fwVars, healthVars, mainVars, sessVars, ctVars, svcVars, rhVars, rfVars>>

MountNext == MountDisk

SpecMount == MountInit /\ [][MountNext]_vars


(***************************************************************************)
(* HealthChecker.check_health_api (core/health.py): the retry loop around  *)
(* the GET of /minio/health/live.  pl_log records each request with the    *)
(* status it received (NoStatus when the request raised) and each sleep.   *)
(***************************************************************************)
NoStatus == 0

HttpStatuses == {200, 204, 503}

\* A success test that accepts every 2xx status.
status_ok_any_2xx(code) == code \in {200, 204}

\* response.status_code == 200
status_ok(code) == code = 200

\* The call: range(retry_count) is empty for a count of 0.
HaCall ==
    /\ pl_pc = "idle"
    /\ \E n \in 0..MaxRetry :
         /\ retry_count' = n
         /\ pl_pc' = IF n = 0 THEN "returned" ELSE "api_attempt"
    /\ pl_attempt' = 0
    /\ pl_log' = <<>>
    /\ pl_ret' = FALSE
    /\ PlKeep

\* One turn of the loop up to its sleep: the request, (True, body) on 200.
HaAttempt ==
    /\ pl_pc = "api_attempt"
    /\ \E code \in HttpStatuses \cup {NoStatus} :
         /\ pl_log' = Append(pl_log, [ev |-> "get", status |-> code, secs |-> 0])
         /\ IF code # NoStatus /\ status_ok(code)
            THEN /\ pl_ret' = TRUE
                 /\ pl_pc' = "returned"
            ELSE /\ pl_ret' = FALSE
                 /\ pl_pc' = IF not_last_attempt(pl_attempt, retry_count)
                             THEN "api_wait" ELSE "returned"
    /\ UNCHANGED <<retry_count, pl_attempt>>
    /\ PlKeep

\* time.sleep(retry_delay), then the next turn.
HaWait ==
    /\ pl_pc = "api_wait"
    /\ pl_log' = Append(pl_log, [ev |-> "sleep", status |-> NoStatus, secs |-> retry_delay])
    /\ pl_attempt' = pl_attempt + 1
    /\ pl_pc' = "api_attempt"
    /\ UNCHANGED <<retry_count, pl_ret>>
    /\ PlKeep

ApiNext == HaCall \/ HaAttempt \/ HaWait

SpecApi == ProbeInit /\ [][ApiNext]_vars


(***************************************************************************)
(* ServiceManager.configure_service (core/service.py).  Each command and   *)
(* each file write is a step whose outcome the host decides.               *)
(***************************************************************************)
MaxSvcCalls == 2

SvcStep(step, outcome) == [call |-> svc_calls, step |-> step, outcome |-> outcome]

\* What "systemctl status minio" shows, or that it exits with an error (as
\* it does for a unit that is not active).
StatusOutputs == {"active (running)", "active (exited)", "error"}

\* A status check that accepts every active state.
status_running_any_active(output) == output \in {"active (running)", "active (exited)"}

\* check_service_status: "active (running)" in output
status_running(output) == output = "active (running)"

SvcKeep == UNCHANGED svcOthers

SvcCall ==
    /\ svc_pc \in {"idle", "returned"}
    /\ svc_calls < MaxSvcCalls
    /\ svc_calls' = svc_calls + 1
    /\ svc_pc' = "create_service_file"
    /\ UNCHANGED <<svc_host, svc_log, svc_ret>>
    /\ SvcKeep

SvcReturnFalse ==
    /\ svc_pc' = "returned"
    /\ svc_ret' = FALSE

\* create_service_file: the environment file, the unit file, daemon-reload;
\* the first that fails ends it with False.
SvcCreateServiceFile ==
    /\ svc_pc = "create_service_file"
    /\ \E o \in {"ok", "env_fails", "unit_fails", "reload_fails"} :
         LET env == SvcStep("write_env", IF o = "env_fails" THEN "fails" ELSE "ok")
             unit == SvcStep("write_unit", IF o = "unit_fails" THEN "fails" ELSE "ok")
             reload == SvcStep("daemon-reload", IF o = "reload_fails" THEN "fails" ELSE "ok")
         IN  /\ svc_log' = svc_log \o
                  (IF o = "env_fails" THEN <<env>>
                   ELSE IF o = "unit_fails" THEN <<env, unit>>
                   ELSE <<env, unit, reload>>)
             /\ svc_host' = [svc_host EXCEPT
                               !.env = @ \/ o # "env_fails",
                               !.unit = @ \/ o \notin {"env_fails", "unit_fails"}]
             /\ IF o = "ok"
                THEN svc_pc' = "enable_service" /\ UNCHANGED svc_ret
                ELSE SvcReturnFalse
    /\ UNCHANGED svc_calls
    /\ SvcKeep

SvcEnableService ==
    /\ svc_pc = "enable_service"
    /\ \E o \in {"ok", "fails"} :
         /\ svc_log' = Append(svc_log, SvcStep("enable", o))
         /\ svc_host' = [svc_host EXCEPT !.enabled = @ \/ o = "ok"]
         /\ IF o = "ok"
            THEN svc_pc' = "start_service" /\ UNCHANGED svc_ret
            ELSE SvcReturnFalse
    /\ UNCHANGED svc_calls
    /\ SvcKeep

SvcStartService ==
    /\ svc_pc = "start_service"
    /\ \E o \in {"ok", "fails"} :
         /\ svc_log' = Append(svc_log, SvcStep("start", o))
         /\ svc_host' = [svc_host EXCEPT !.started = @ \/ o = "ok"]
         /\ IF o = "ok"
            THEN svc_pc' = "check_service_status" /\ UNCHANGED svc_ret
            ELSE SvcReturnFalse
    /\ UNCHANGED svc_calls
    /\ SvcKeep

\* The status check and the return: without "active (running)" the recent
\* logs are fetched (get_service_logs catches its own errors) before False.
SvcCheckServiceStatus ==
    /\ svc_pc = "check_service_status"
    /\ \E output \in StatusOutputs, logs \in {"ok", "fails"} :
         IF output # "error" /\ status_running(output)
         THEN /\ svc_log' = Append(svc_log, SvcStep("status", output))
              /\ svc_ret' = TRUE
         ELSE /\ svc_log' = svc_log \o <<SvcStep("status", output), SvcStep("journalctl", logs)>>
              /\ svc_ret' = FALSE
    /\ svc_pc' = "returned"
    /\ UNCHANGED <<svc_calls, svc_host>>
    /\ SvcKeep

SvcInit ==
    /\ proc_mounts = {<<sda1, "/">>}
    /\ DiskIdle
    /\ ExecIdle
    /\ RunIdle
    /\ LibIdle

SvcNext ==
    \/ SvcCall
    \/ SvcCreateServiceFile
    \/ SvcEnableService
    \/ SvcStartService
    \/ SvcCheckServiceStatus

SpecSvc == SvcInit /\ [][SvcNext]_vars


(***************************************************************************)
(* Deployer.run_health_checks (core/deployer.py): which machine each probe *)
(* of run_comprehensive_check looks at.  Machine LocalTarget is the one    *)
(* the tool runs on, and "localhost" is its address.                       *)
(***************************************************************************)
MachineStates == [active : BOOLEAN, listening : BOOLEAN, healthy : BOOLEAN]

RhConfigs ==
    [mode : {"standalone"}, host : {"localhost", "192.168.1.10"}, nodes : {0}, dry_run : BOOLEAN]
        \cup [mode : {"cluster"}, host : {"localhost"}, nodes : 1..MaxNodes, dry_run : BOOLEAN]

\* The machine a deployment target is.
RhTargets ==
    IF rh_config.mode = "standalone"
    THEN {IF is_local(rh_config.host) THEN LocalTarget ELSE 1}
    ELSE 1..rh_config.nodes

\* check_service_running: "systemctl is-active minio" as a subprocess of the
\* tool; it takes no host.
check_service_running(machines) == machines[LocalTarget].active

\* check_port_listening(host, port): a connection to host:port.
port_listening_on(machines, host) == machines[host].listening

\* check_health_api(host, port): GET http://host:port/minio/health/live.
health_api_on(machines, host) == machines[host].healthy

\* run_comprehensive_check(host, ...): the three findings that make the
\* overall status.
run_comprehensive_check(machines, host) ==
    LET r == [service_running |-> check_service_running(machines),
              port_listening |-> port_listening_on(machines, host),
              health_api |-> health_api_on(machines, host)]
    IN  [service_running |-> r.service_running,
         port_listening |-> r.port_listening,
         health_api |-> r.health_api,
         overall_status |-> r.service_running /\ r.port_listening /\ r.health_api]

RhKeep == UNCHANGED rhOthers

\* Standalone mode: the check is run_comprehensive_check("localhost", ...),
\* whatever standalone.host is; an unhealthy result is exit(1).
RhStandalone ==
    /\ rh_pc = "start"
    /\ rh_config.mode = "standalone"
    /\ IF rh_config.dry_run
       THEN /\ UNCHANGED rh_results
            /\ rh_pc' = "returned"
            /\ UNCHANGED rh_exit
       ELSE LET res == run_comprehensive_check(rh_machines, LocalTarget)
            IN  /\ rh_results' = {[target |-> t, results |-> res] : t \in RhTargets}
                /\ rh_pc' = IF res.overall_status THEN "returned" ELSE "exited"
                /\ rh_exit' = IF res.overall_status THEN rh_exit ELSE 1
    /\ UNCHANGED <<rh_config, rh_machines>>
    /\ RhKeep

\* Cluster mode, check_node_health(node) on a pool thread: the check is
\* run_comprehensive_check(host of the node, ...).
RhCheckNodeHealth ==
    /\ rh_pc = "start"
    /\ rh_config.mode = "cluster"
    /\ \E node \in RhTargets :
         /\ \A r \in rh_results : r.target # node
         /\ rh_results' = rh_results \cup
              {[target |-> node,
                results |-> IF rh_config.dry_run
                            THEN [service_running |-> TRUE, port_listening |-> TRUE,
                                  health_api |-> TRUE, overall_status |-> TRUE]
                            ELSE run_comprehensive_check(rh_machines, node)]}
    /\ UNCHANGED <<rh_pc, rh_config, rh_machines, rh_exit>>
    /\ RhKeep

\* Cluster mode, after the pool: exit(1) unless every node was healthy.
RhCluster ==
    /\ rh_pc = "start"
    /\ rh_config.mode = "cluster"
    /\ {r.target : r \in rh_results} = RhTargets
    /\ LET ok == \A r \in rh_results : r.results.overall_status
       IN  /\ rh_pc' = IF ok THEN "returned" ELSE "exited"
           /\ rh_exit' = IF ok THEN rh_exit ELSE 1
    /\ UNCHANGED <<rh_config, rh_machines, rh_results>>
    /\ RhKeep

RhInit ==
    /\ proc_mounts = {<<sda1, "/">>}
    /\ DiskIdle
    /\ ExecIdle
    /\ RunIdle
    /\ ParIdle /\ TrustIdle /\ FwIdle /\ HealthIdle /\ MainIdle /\ SessIdle
    /\ CtIdle /\ MountIdle /\ SvcIdle /\ RfIdle
    /\ rh_pc = "start"
    /\ rh_config \in RhConfigs
    /\ rh_machines \in [0..MaxNodes -> MachineStates]
    /\ rh_results = {}
    /\ rh_exit = 0

RhNext ==
    \/ RhStandalone
    \/ RhCheckNodeHealth
    \/ RhCluster

SpecRh == RhInit /\ [][RhNext]_vars


(***************************************************************************)
(* Deployer.configure_firewall for a remote target (core/deployer.py): one *)
(* command chain, sent with execute_command and run by the target's shell. *)
(***************************************************************************)
\* cluster.server_port and cluster.console_port, with their defaults.
RemotePorts == <<9000, 9001>>

RfConfigs == [kind : {"standalone", "node"}, dry_run : BOOLEAN]

RfHosts == [installed : BOOLEAN, active : BOOLEAN, open : SUBSET {9000, 9001}]

\* cmd: "firewall-cmd --add-port=<p0>/tcp --permanent && firewall-cmd
\* --add-port=<p1>/tcp --permanent && firewall-cmd --reload".
remote_firewall_cmd(i) ==
    IF i <= Len(RemotePorts) THEN [prog |-> "firewall-cmd", verb |-> "open", port |-> RemotePorts[i]]
    ELSE [prog |-> "firewall-cmd", verb |-> "reload", port |-> NoPort]

RfKeep ==
    /\ UNCHANGED <<rf_config, rf_host>>
    /\ UNCHANGED rfOthers

\* The stage up to execute_command: a dry run only logs; otherwise the chain
\* is sent, or the session fails and execute_command returns a non-zero code.
RfExecuteCommand ==
    /\ rf_pc = "start"
    /\ IF rf_config.dry_run
       THEN rf_pc' = "returned" /\ UNCHANGED <<rf_i, rf_result>>
       ELSE \E connected \in BOOLEAN :
              IF connected
              THEN rf_pc' = "remote" /\ rf_i' = 1 /\ UNCHANGED rf_result
              ELSE rf_pc' = "result" /\ rf_result' = "nonzero" /\ UNCHANGED rf_i
    /\ UNCHANGED <<rf_open, rf_cmds>>
    /\ RfKeep

\* The target's shell runs the next command of the chain; "&&" ends the chain
\* at the first that fails.  firewall-cmd fails when it is not installed and
\* when firewalld is not running; the environment may make it fail besides.
RfRemoteCommand ==
    /\ rf_pc = "remote"
    /\ \E fails \in BOOLEAN :
         LET cmd == remote_firewall_cmd(rf_i)
             ok == rf_host.installed /\ rf_host.active /\ ~fails
         IN  /\ rf_cmds' = Append(rf_cmds, cmd)
             /\ rf_open' = IF ok /\ cmd.verb = "open" THEN rf_open \cup {cmd.port} ELSE rf_open
             /\ IF ~ok
                THEN rf_pc' = "result" /\ rf_result' = "nonzero" /\ UNCHANGED rf_i
                ELSE IF rf_i > Len(RemotePorts)
                THEN rf_pc' = "result" /\ rf_result' = "zero" /\ UNCHANGED rf_i
                ELSE rf_i' = rf_i + 1 /\ UNCHANGED <<rf_pc, rf_result>>
    /\ RfKeep

\* What the stage does with the result: for the standalone host a non-zero
\* code is exit(1); for a cluster node the result is not looked at.
RfResult ==
    /\ rf_pc = "result"
    /\ rf_pc' = IF rf_config.kind = "standalone" /\ rf_result # "zero"
                THEN "exited" ELSE "returned"
    /\ UNCHANGED <<rf_open, rf_i, rf_cmds, rf_result>>
    /\ RfKeep

RfInit ==
    /\ proc_mounts = {<<sda1, "/">>}
    /\ DiskIdle
    /\ ExecIdle
    /\ RunIdle
    /\ ParIdle /\ TrustIdle /\ FwIdle /\ HealthIdle /\ MainIdle /\ SessIdle
    /\ CtIdle /\ MountIdle /\ SvcIdle /\ RhIdle
    /\ rf_pc = "start"
    /\ rf_config \in RfConfigs
    /\ rf_host \in RfHosts
    /\ rf_open = rf_host.open
    /\ rf_i = 0
    /\ rf_cmds = <<>>
    /\ rf_result = "none"

RfNext ==
    \/ RfExecuteCommand
    \/ RfRemoteCommand
    \/ RfResult

SpecRf == RfInit /\ [][RfNext]_vars

(***************************************************************************)
(* Properties of the disk safety inspector                                 *)
(***************************************************************************)
\* A device is OS-protected on a host when it is mounted at /, /boot or
\* /boot/efi there, or is the disk that holds such a partition.
OsProtected(table, device) ==
    \E e \in table :
        /\ e[2] \in OsMountPoints
        /\ device = e[1] \/ device = HoldingDisk(e[1])

\* C3: for every mount table, check_os_partition(device) returns False for
\* every device mounted at /, /boot or /boot/efi and for the disk that holds
\* such a partition.
C3_RefusesEveryOsProtectedDevice ==
    (disk_call.op = "check_os_partition" /\ OsProtected(proc_mounts, disk_call.device))
        => disk_ret = FALSE

\* C4: prepare_disk called with an OS-protected device returns False, invokes
\* nothing after the safety check and leaves the device, the live mount table
\* and fstab unchanged.
C4_PrepareDiskLeavesOsDeviceAlone ==
    [][(disk_call.op = "none" /\ disk_call'.op = "prepare_disk"
            /\ OsProtected(proc_mounts, disk_call'.device))
        => (/\ disk_ret' = FALSE
            /\ disk_trace' = <<"check_os_partition">>
            /\ UNCHANGED <<proc_mounts, fstab, formatted>>)]_vars

(***************************************************************************)
(* Properties of execute_command                                           *)
(***************************************************************************)
\* C9 as stated: execute_command never raises, returns (1, "", errorDetail)
\* for every failure, and otherwise returns the remote command's exit code
\* with its stdout and stderr.
C9_ReturnsRemoteOutputAsProduced ==
    /\ exec_pc # "raised"
    /\ exec_pc = "returned" =>
        IF exec_exc # "none" THEN exec_result = <<1, <<>>, <<exec_exc>>>>
        ELSE exec_result = <<exec_remote.code, exec_remote.out, exec_remote.err>>

\* C9 as amended: execute_command never raises; every exception raised while
\* connecting, authenticating, executing or decoding the output is returned
\* as (1, "", str(e)); otherwise the result is the remote command's exit code
\* with its stdout and stderr stripped of leading and trailing whitespace.
C9_NeverRaisesAndNormalisesFailures ==
    /\ exec_pc # "raised"
    /\ exec_pc = "returned" =>
        IF exec_exc # "none" THEN exec_result = <<1, <<>>, <<exec_exc>>>>
        ELSE exec_result = <<exec_remote.code, strip(exec_remote.out), strip(exec_remote.err)>>

\* A call that timed out was returned as (1, "", detail).
C9_Witness ==
    /\ exec_pc = "returned"
    /\ exec_exc = "socket.timeout"
    /\ exec_result[1] = 1

BothCredentials ==
    exec_args.key_file # NoKey /\ exec_args.password # NoPassword

\* C10: with a key and a password, the key is tried first; the password is
\* tried if and only if the key attempt failed with an authentication error;
\* after any other failure of the key attempt no second attempt is made and
\* the failure is returned.
C10_PasswordOnlyAfterAuthenticationFailure ==
    BothCredentials =>
        /\ Len(exec_attempts) <= 2
        /\ Len(exec_attempts) >= 1 =>
            /\ exec_attempts[1].call.auth = "key"
            /\ exec_attempts[1].call.password = NoPassword
        /\ Len(exec_attempts) = 2 =>
            /\ IsInstance(exec_attempts[1].outcome, "AuthenticationException")
            /\ exec_attempts[2].call.auth = "password"
        /\ (exec_pc \in {"connected", "returned", "raised"} /\ Len(exec_attempts) = 1) =>
            /\ ~IsInstance(exec_attempts[1].outcome, "AuthenticationException")
            /\ exec_attempts[1].outcome # "ok" =>
                /\ exec_pc = "returned"
                /\ exec_result = <<1, <<>>, <<exec_attempts[1].outcome>>>>

\* The key was refused and the password attempt connected.
C10_Witness ==
    /\ BothCredentials
    /\ Len(exec_attempts) = 2
    /\ exec_attempts[1].outcome = "BadAuthenticationType"
    /\ exec_attempts[2].outcome = "ok"
    /\ exec_pc = "connected"

(***************************************************************************)
(* Properties of Deployer.run                                              *)
(***************************************************************************)
\* The mount table of a target.
TargetTable(t) == IF t = LocalTarget THEN proc_mounts ELSE remote_mounts[t]

\* The data device configured for a target, NoDev when there is none.
ConfiguredDevice(t) ==
    IF config.mode = "standalone"
    THEN (IF t = StandaloneTarget /\ config.disk.enabled THEN config.disk.device ELSE NoDev)
    ELSE (IF t \in 1..NodeCount /\ config.nodes[t].disk.enabled
          THEN config.nodes[t].disk.device ELSE NoDev)

Targets == 0..MaxNodes

DiskCommands == {"mkfs", "mount"}

\* C1: no mkfs and no mount command is issued for a device that is OS-protected
\* on its target, and a run that is not a dry run never gets past
\* check_os_partitions with such a device configured for a target.
C1_NoFormatOrMountOfOsDevice ==
    /\ \A o \in ops :
         o.op \in DiskCommands => ~OsProtected(TargetTable(o.target), o.device)
    /\ \A t \in Targets :
         (/\ ~dry_run
          /\ ConfiguredDevice(t) # NoDev
          /\ OsProtected(TargetTable(t), ConfiguredDevice(t)))
         => \A i \in 1..Len(returned) : returned[i] # "check_os_partitions"

InSeq(x, s) == \E i \in 1..Len(s) : s[i] = x

Range(s) == {s[i] : i \in 1..Len(s)}

FirewallCommands == {"is_firewall_running", "open_port", "firewall-cmd"}

\* C2: in cluster mode, once a node is found to carry a service unit, the
\* firewall stage never starts and no firewall or disk command is issued; and
\* when check_minio_exists is over, every node has been probed, the nodes
\* reported are the nodes found, and the run has ended with status 1.
C2_GuardProbesAllNodesThenExits ==
    (config.mode = "cluster" /\ nodes_with_minio # <<>>) =>
        /\ ~InSeq("configure_firewall", started)
        /\ \A o \in ops : o.op \notin DiskCommands \cup FirewallCommands
        /\ pc # "check_minio_exists" =>
             /\ pc = "exit"
             /\ exit_code = 1
             /\ \A t \in 1..NodeCount : Op(t, "check_service_exists") \in ops
             /\ Range(nodes_with_minio) \cup Range(nodes_without_minio) = 1..NodeCount
             /\ Range(nodes_with_minio) \cap Range(nodes_without_minio) = {}
             /\ reported = nodes_with_minio

\* A three-node cluster in which only node 2 carries a unit: the run has ended
\* after all three probes, with node 2 reported.
C2_Witness ==
    /\ config.mode = "cluster"
    /\ NodeCount = 3
    /\ pc = "exit"
    /\ nodes_with_minio = <<2>>
    /\ nodes_without_minio = <<1, 3>>
    /\ reported = <<2>>

\* The device of a local standalone deployment is mounted at / on the local host.
LocalDeviceIsRoot ==
    /\ config.mode = "standalone"
    /\ is_local(config.host)
    /\ config.disk.enabled
    /\ <<config.disk.device, "/">> \in proc_mounts

LaterStages ==
    {"check_minio_exists", "configure_firewall", "install_minio", "configure_minio_service",
     "run_health_checks"}

FixedOrder ==
    <<"run_system_checks", "load_config", "check_ssh_trust", "check_os_partitions",
      "check_minio_exists", "configure_firewall">>
    \o (IF elided THEN <<>>
        ELSE <<"install_minio", "configure_minio_service", "run_health_checks">>)

\* C6: the stages started are an initial part of the fixed order (so none is
\* started twice), the stages returned are an initial part of the stages
\* started, at most one stage is started and not returned, that stage is the
\* one running, and the run is complete only when every stage has returned.
C6_StagesRunInFixedOrder ==
    /\ IsPrefix(started, FixedOrder)
    /\ IsPrefix(returned, started)
    /\ Len(started) - Len(returned) <= 1
    /\ pc \in Range(FixedOrder) =>
         /\ Len(started) = Len(returned) + 1
         /\ started[Len(started)] = pc
    /\ pc = "done" => returned = FixedOrder

\* A run with no stage elided has returned from all nine stages.
C6_Witness ==
    /\ ~elided
    /\ pc = "done"
    /\ Len(returned) = 9
    /\ exit_code = 0

StageIndex(s) == CHOOSE k \in 1..Len(FixedOrder) : FixedOrder[k] = s

\* C7: once an operation of a stage has failed on a target, the run does not
\* complete, does not end with status 0 and starts no later stage.
C7_FailedStageEndsRun ==
    \A f \in failures :
        /\ pc # "done"
        /\ exit_code # 0
        /\ Len(started) <= StageIndex(f.stage)

ReadOnlyProbes ==
    {"check_ssh_trust", "check_ssh_connection", "check_partition_exists",
     "check_os_partition", "check_service_exists"}

\* The mutating actions a completed dry run of this configuration announces.
DryRunPlan ==
    LET targets == IF config.mode = "standalone" THEN {StandaloneTarget}
                   ELSE 0..NodeCount
        installs == IF config.mode = "standalone" THEN {StandaloneTarget}
                    ELSE 1..NodeCount
    IN  {Planned(t, "open_ports") : t \in targets}
        \cup (IF elided THEN {}
              ELSE {Planned(t, "install_minio") : t \in installs}
                   \cup (IF config.mode = "standalone"
                         THEN {Planned(StandaloneTarget, "configure_service")}
                              \cup (IF config.disk.enabled
                                    THEN {Planned(StandaloneTarget, "prepare_disk")}
                                    ELSE {})
                         ELSE {}))

\* C8: in a dry run every operation issued is a read-only probe (so
\* setup_ssh_trust is not invoked, no port is opened, nothing is installed,
\* formatted, mounted or written), the local disk state is untouched, and a
\* completed dry run has logged the actions it left out.
C8_DryRunOnlyProbes ==
    dry_run =>
        /\ \A o \in ops : o.op \in ReadOnlyProbes
        /\ formatted = {}
        /\ fstab = <<>>
        /\ pc = "done" => DryRunPlan \subseteq dry_log

\* A completed dry run for a remote standalone host that was not trusted and
\* has a data disk: trust setup and disk preparation were logged only.
C8_Witness ==
    /\ dry_run
    /\ pc = "done"
    /\ ~elided
    /\ config.mode = "standalone"
    /\ config.disk.enabled
    /\ Planned(1, "setup_ssh_trust") \in dry_log
    /\ Planned(1, "prepare_disk") \in dry_log
    /\ Op(1, "check_ssh_trust") \in ops

(***************************************************************************)
(* Properties of execute_parallel                                          *)
(***************************************************************************)
FailedResults == {i \in 1..Len(results) : results[i].result[1] # 0}

FailedTasks == {i \in 1..Len(tasks) : par_outcome[i] # "ok"}

\* What execute_parallel returns: one result for each task, in the order of
\* the list, and as many results with a non-zero exit code as tasks failed.
ParResultsMatchTasks ==
    par_pc = "returned" =>
        /\ Len(results) = Len(tasks)
        /\ \A i \in 1..Len(tasks) : results[i].task = tasks[i]
        /\ Cardinality(FailedResults) = Cardinality(FailedTasks)

\* C11 as stated: N results with M failed and no exception, for every N >= 0
\* and every worker-pool size.
C11_NResultsNeverRaisesForEveryPoolSize ==
    /\ ParResultsMatchTasks
    /\ par_pc # "raised"

\* C11: N results with M failed for every N >= 0, and no exception for every
\* worker-pool size of at least 1.
C11_NResultsNeverRaisesForPositivePoolSize ==
    /\ ParResultsMatchTasks
    /\ max_workers >= 1 => par_pc # "raised"

\* Three tasks on a pool of one worker, two of them failed, two on the same host.
C11_Witness ==
    /\ par_pc = "returned"
    /\ Len(tasks) = 3
    /\ max_workers = 1
    /\ tasks[1].host = tasks[3].host
    /\ FailedResults = {1, 3}
    /\ Len(results) = 3

(***************************************************************************)
(* Properties of the fan-out stages                                        *)
(***************************************************************************)
FanOutStages == {"install_minio", "run_health_checks"}

CallsOf(stage, t) ==
    {i \in 1..Len(fan_calls) : fan_calls[i] = [stage |-> stage, target |-> t]}

StageFailed(stage) == \E f \in failures : f.stage = stage

\* C12: when a cluster fan-out stage is over, every node was called exactly
\* once, the stage has returned exactly when no node failed, and a failed
\* node has ended the run with status 1.
C12_FanOutTriesEveryNode ==
    \A stage \in FanOutStages :
        (config.mode = "cluster" /\ InSeq(stage, started) /\ pc # stage) =>
            /\ \A t \in 1..NodeCount : Cardinality(CallsOf(stage, t)) = 1
            /\ InSeq(stage, returned) <=> ~StageFailed(stage)
            /\ StageFailed(stage) => pc = "exit" /\ exit_code = 1

\* Three nodes, the install on node 1 failed: nodes 2 and 3 were installed
\* all the same and the run has ended.
C12_Witness ==
    /\ config.mode = "cluster"
    /\ NodeCount = 3
    /\ ~dry_run
    /\ pc = "exit"
    /\ failures = {Failure("install_minio", 1)}
    /\ Op(3, "install_minio") \in ops
    /\ Op(3, "install_mc") \in ops

(***************************************************************************)
(* Properties of setup_ssh_trust                                           *)
(***************************************************************************)
KeyLines == {i \in 1..Len(authorized_keys) : authorized_keys[i] = public_key}

\* C13: a call made when the key is in the store issues no command that
\* changes the host, whatever it returns, and the store never holds the key
\* twice.
C13_SetupTrustIsIdempotent ==
    /\ (trust_pc = "returned" /\ trust_present) => trust_cmds = <<>>
    /\ Cardinality(KeyLines) <= 1

(***************************************************************************)
(* Properties of add_to_fstab                                              *)
(***************************************************************************)
\* The lines of /etc/fstab that begin with the device and the mount point of
\* the calls.
FstabEntriesOfCall ==
    {i \in 1..Len(fstab) :
        IsPrefix(<<disk_call.device>> \o words(disk_call.mount_point), fstab[i])}

\* C14: after two or more calls of add_to_fstab with the same arguments,
\* /etc/fstab holds exactly one entry of that device and mount point and the
\* calls returned True.
C14_AddToFstabTwiceLeavesOneEntry ==
    (disk_call.op = "add_to_fstab" /\ Len(disk_trace) >= 2) =>
        /\ Cardinality(FstabEntriesOfCall) = 1
        /\ disk_ret


(***************************************************************************)
(* Properties of configure_firewall (specification SpecFw)                 *)
(***************************************************************************)
\* The commands the last finished call of configure_firewall issued.
LastFwCmds == {fw_cmds[k] : k \in {j \in 1..Len(fw_cmds) : fw_cmds[j].call = fw_calls}}

\* The backend is not active: its status probe fails, or there is no backend.
BackendInactive == firewall_type = "unknown" \/ ~fw_active

FwFinishedInactive == fw_pc = "done" /\ BackendInactive

\* C15 as stated: configure_firewall against a backend that is not active
\* returns True and issues no firewall-cmd and no iptables invocation at all,
\* and queries and opens no port.
C15_InactiveBackendNoBackendCommand ==
    FwFinishedInactive =>
        /\ fw_ret = "True"
        /\ \A c \in LastFwCmds : c.prog \notin {"firewall-cmd", "iptables"}
        /\ \A c \in LastFwCmds : c.verb \notin {"query", "open", "save"}

\* C15 amended: configure_firewall against a backend that is not active
\* returns True, issues no firewall-cmd, queries and opens no port and leaves
\* the rules alone; the only backend command it may issue is the status probe
\* of an iptables backend (iptables -L -n).
C15_InactiveBackendOnlyStatusProbe ==
    FwFinishedInactive =>
        /\ fw_ret = "True"
        /\ \A c \in LastFwCmds : c.prog # "firewall-cmd"
        /\ \A c \in LastFwCmds : c.prog = "iptables" => c.verb = "status"
        /\ \A c \in LastFwCmds : c.verb \notin {"query", "open", "save"}
        /\ fw_rules \in InitialRules

\* A call with two ports against an installed, inactive firewalld has returned.
C15_Witness ==
    /\ FwFinishedInactive
    /\ firewall_type = "firewalld"
    /\ Len(fw_ports) = 2
    /\ fw_ret = "True"


(***************************************************************************)
(* Properties of run_comprehensive_check (specification SpecHealth)        *)
(***************************************************************************)
\* The dicts the three other results can be changed to.
OtherResultsChanged(r) ==
    {[r EXCEPT !.console_port_listening = c, !.mc_available = m, !.bucket_access = b] :
        c \in BOOLEAN, m \in BOOLEAN, b \in BOOLEAN}

\* C16: in every result returned, overall_status is service_running AND
\* port_listening AND health_api, and it is the status computed for every
\* result that differs only in the console port, the client tool or the
\* bucket access.
C16_OverallStatusIsAndOfThree ==
    hc_pc = "returned" =>
        /\ hc_results.overall_status =
             (hc_results.service_running /\ hc_results.port_listening /\ hc_results.health_api)
        /\ \A r \in OtherResultsChanged(hc_results) :
             overall_status(r) = hc_results.overall_status

\* A healthy result whose console port does not listen and whose smoke test
\* was skipped for want of the client tool.
C16_Witness ==
    /\ hc_pc = "returned"
    /\ hc_results.overall_status
    /\ ~hc_results.console_port_listening
    /\ ~hc_results.mc_available
    /\ ~hc_results.bucket_access


(***************************************************************************)
(* Properties of check_port_listening (specification SpecProbe)            *)
(***************************************************************************)
Connects == {k \in 1..Len(pl_log) : pl_log[k].ev = "connect"}

Sleeps == {k \in 1..Len(pl_log) : pl_log[k].ev = "sleep"}

FailedConnects == {k \in Connects : pl_log[k].outcome # "connected"}

\* One wait between two consecutive attempts and none after the last.
WaitsBetween(attempts) == IF attempts = 0 THEN 0 ELSE attempts - 1

\* C17: check_port_listening with retry_count = n returns True at the first
\* attempt k <= n that connects, after exactly k attempts and k-1 waits of
\* retry_delay; it returns False only after exactly n failed attempts, with a
\* wait between consecutive attempts and none after the last.
C17_ProbeAttemptsAndWaits ==
    pl_pc = "returned" =>
        /\ Cardinality(Sleeps) = WaitsBetween(Cardinality(Connects))
        /\ \A k \in Sleeps : pl_log[k].secs = retry_delay
        /\ pl_log # <<>> => pl_log[Len(pl_log)].ev = "connect"
        /\ pl_ret =>
             /\ Cardinality(Connects) \in 1..retry_count
             /\ pl_log[Len(pl_log)].outcome = "connected"
             /\ Cardinality(FailedConnects) = Cardinality(Connects) - 1
        /\ ~pl_ret =>
             /\ Cardinality(Connects) = retry_count
             /\ FailedConnects = Connects

\* The port is reachable only on the 5th of 5 attempts: True after exactly
\* 5 attempts and 4 waits.
C17_Witness ==
    /\ pl_pc = "returned"
    /\ retry_count = 5
    /\ pl_ret
    /\ Cardinality(Connects) = 5
    /\ Cardinality(FailedConnects) = 4
    /\ Cardinality(Sleeps) = 4


(***************************************************************************)
(* Properties of the exit status (specification SpecMain)                  *)
(***************************************************************************)
\* The process has ended.
Exited == pc \in {"done", "exit"}

\* C18: the exit status is 0 exactly when run() returned with no operation
\* of any stage having failed, and 1 when a stage ended the run, when an
\* exception escaped run() and when the operator interrupted it.
C18_ExitCodeZeroIffEveryStageSucceeded ==
    Exited =>
        /\ exit_code \in {0, 1}
        /\ exit_code = 0 <=> (pc = "done" /\ failures = {} /\ main_exc = "none")
        /\ pc = "exit" => exit_code = 1
        /\ main_exc # "none" => exit_code = 1


(***************************************************************************)
(* Properties of the transport sessions (specification SpecSess)           *)
(***************************************************************************)
\* C19: when no call of execute_command, upload_file or download_file is in
\* progress, no session and no SFTP channel any call opened is still open,
\* whether the call succeeded or failed; and every call has created a client
\* of its own.
C19_EverySessionClosedOnReturn ==
    sess_pc \in {"idle", "returned"} =>
        \A k \in 1..Len(sess_clients) :
            /\ sess_clients[k].client # "open"
            /\ sess_clients[k].sftp # "open"


(***************************************************************************)
(* Properties of the authentication of execute_command (SpecExec)          *)
(***************************************************************************)
KeySupplied == exec_args.key_file # NoKey

PasswordSupplied == exec_args.password # NoPassword

Attempts == {exec_attempts[k].call : k \in 1..Len(exec_attempts)}

\* C20: the connects of a call are determined by the credentials supplied.
\* Key and password: the key first, with agent and key discovery disabled.
\* Key only: the key, never a password.  Password only: the password.
\* Neither: the defaults, agent and key discovery.  A call makes at most two
\* connects, and a second one only with both credentials.
C20_AuthenticationByCredentials ==
    /\ Len(exec_attempts) <= 2
    /\ Len(exec_attempts) = 2 => KeySupplied /\ PasswordSupplied
    /\ (exec_attempts # <<>> /\ KeySupplied /\ PasswordSupplied) =>
         /\ exec_attempts[1].call.auth = "key"
         /\ exec_attempts[1].call.key_filename = private_key_file(exec_args.key_file)
         /\ exec_attempts[1].call.password = NoPassword
         /\ ~exec_attempts[1].call.look_for_keys
         /\ ~exec_attempts[1].call.allow_agent
    /\ (KeySupplied /\ ~PasswordSupplied) =>
         \A c \in Attempts :
             /\ c.auth = "key"
             /\ c.key_filename = private_key_file(exec_args.key_file)
             /\ c.password = NoPassword
    /\ (~KeySupplied /\ PasswordSupplied) =>
         \A c \in Attempts :
             /\ c.auth = "password"
             /\ c.password = exec_args.password
             /\ c.key_filename = NoKey
    /\ (~KeySupplied /\ ~PasswordSupplied) =>
         \A c \in Attempts :
             /\ c.auth = "default"
             /\ c.key_filename = NoKey
             /\ c.password = NoPassword
             /\ c.look_for_keys
             /\ c.allow_agent

\* A call with a public key file and a password has made its two connects:
\* the private key without discovery, then the password.
C20_Witness ==
    /\ exec_args.key_file = <<"~", ".ssh", "id_rsa", ".pub">>
    /\ PasswordSupplied
    /\ Len(exec_attempts) = 2
    /\ exec_attempts[1].call.key_filename = <<"/root", ".ssh", "id_rsa">>
    /\ ~exec_attempts[1].call.look_for_keys
    /\ exec_attempts[2].call.auth = "password"
    /\ exec_pc = "returned"


(***************************************************************************)
(* Properties of the worker pool of execute_parallel (SpecPar)             *)
(***************************************************************************)
\* C21: execute_parallel returns one result for each task, the i-th result
\* paired with the i-th task and reporting how that task ended, whatever
\* order the workers finished in; every task has been executed, also when
\* other tasks failed or raised.
C21_OneResultPerTaskPairedWithIt ==
    par_pc = "returned" =>
        /\ Len(results) = Len(tasks)
        /\ Len(par_done) = Len(tasks)
        /\ \A i \in 1..Len(tasks) :
             /\ \E k \in 1..Len(par_done) : par_done[k] = i
             /\ results[i].task = tasks[i]
             /\ (results[i].result[1] = 0) <=> (par_outcome[i] = "ok")
             /\ par_outcome[i] = "raises" => results[i].result[1] = 1

\* Three tasks, two on the same host; the workers finished the second before
\* the first, the first failed and the second raised.
C21_Witness ==
    /\ par_pc = "returned"
    /\ Len(tasks) = 3
    /\ tasks[1].host = tasks[2].host
    /\ par_done = <<2, 1, 3>>
    /\ par_outcome = <<"connection", "raises", "ok">>
    /\ results[3].result[1] = 0

SessionsOk(auths) ==
    {k \in 1..Len(ct_sessions) : ct_sessions[k].auth \in auths /\ ct_sessions[k].outcome = "ok"}

\* C23: check_ssh_trust returns True only if a key-based session (with the
\* configured key or a default identity) succeeded, or a password session
\* found the public key in the host's store; it returns False when only a
\* password session succeeded without finding the key; it never raises.
C23_TrueOnlyForKeySessionOrKeyInStore ==
    /\ ct_pc # "raised"
    /\ ct_pc = "returned" => ct_ret \in {"True", "False"}
    /\ ct_ret = "True" =>
         \/ SessionsOk({"key", "default"}) # {}
         \/ /\ SessionsOk({"password"}) # {}
            /\ key_in_store(authorized_keys)
            /\ public_key_content(ct_args, ct_files) = public_key
    /\ (ct_pc = "returned" /\ SessionsOk({"key", "default"}) = {}
          /\ ~(key_in_store(authorized_keys) /\ public_key_content(ct_args, ct_files) # "")) =>
         ct_ret = "False"

\* Only the password is configured and the host accepts it: the one session
\* of the call succeeded and the call returned False.
C23_Witness ==
    /\ ct_pc = "returned"
    /\ ct_args.key_file = NoKey
    /\ ct_sessions = <<CtSession("password", "ok")>>
    /\ ct_ret = "False"


(***************************************************************************)
(* Properties of the steps of setup_ssh_trust (specification SpecTrust)    *)
(***************************************************************************)
RECURSIVE StepsOf(_, _)
\* The steps of AddSteps that call c logged among the first n entries, in order.
StepsOf(c, n) ==
    IF n = 0 THEN <<>>
    ELSE IF trust_log[n].call = c /\ trust_log[n].step \in Range(AddSteps)
    THEN Append(StepsOf(c, n - 1), trust_log[n].step)
    ELSE StepsOf(c, n - 1)

CallSteps(c) == StepsOf(c, Len(trust_log))

Keygens == {k \in 1..Len(trust_log) : trust_log[k].step = "ssh-keygen"}

\* C24: a call that changes the host runs password connect, mkdir, chmod 700,
\* echo >> authorized_keys, chmod 600 in this order, each step only after all
\* the steps before it; a call that went that way returns True only after its
\* last step; ssh-keygen never runs when the key pair exists and never again
\* once it has generated one.
C24_AddStepsInOrderAndKeyPairKept ==
    /\ \A c \in 1..trust_calls : IsPrefix(CallSteps(c), AddSteps)
    /\ (trust_pc = "returned" /\ trust_ret /\ CallSteps(trust_calls) # <<>>) =>
         /\ CallSteps(trust_calls) = AddSteps
         /\ key_in_store(authorized_keys)
    /\ trust_local = "existing" => Keygens = {}
    /\ \A i \in Keygens, j \in Keygens :
         i < j => ~\E k \in 1..Len(trust_log) :
                     trust_log[k].call = trust_log[i].call /\ trust_log[k].step = "check"

\* With an existing key pair, the first call has added the key to a store
\* that held another key, and returned True.
C24_Witness ==
    /\ trust_pc = "returned"
    /\ trust_ret
    /\ trust_calls = 1
    /\ trust_local = "existing"
    /\ CallSteps(1) = AddSteps
    /\ authorized_keys = <<OtherKey, public_key>>


(***************************************************************************)
(* Properties of the trust stage without a password (SpecTrustStage)       *)
(***************************************************************************)
\* The remote targets of the run for which no password is configured.
TargetsWithoutPassword ==
    IF config.mode = "standalone"
    THEN (IF ~is_local(config.host) /\ config.ssh_password = NoPassword THEN {1} ELSE {})
    ELSE {t \in 1..NodeCount : config.nodes[t].ssh_password = NoPassword}

\* C25: for a target without a password setup_ssh_trust is neither invoked
\* nor, in a dry run, announced, and a failed trust check of such a target
\* has ended the run with status 1; and setup_ssh_trust called without a
\* password returns False and appends nothing to the store.
C25_NoPasswordNoTrustSetup ==
    /\ \A t \in TargetsWithoutPassword :
         /\ Op(t, "setup_ssh_trust") \notin ops
         /\ Planned(t, "setup_ssh_trust") \notin dry_log
         /\ Failure("check_ssh_trust", t) \in failures => pc = "exit" /\ exit_code = 1
    /\ trust_password = NoPassword =>
         /\ ~key_in_store(authorized_keys)
         /\ trust_cmds = <<>>
         /\ trust_pc = "returned" => ~trust_ret

\* A dry run has ended in the trust stage on the second node, which is not
\* trusted and has no password.
C25_Witness ==
    /\ dry_run
    /\ config.mode = "cluster"
    /\ 2 \in TargetsWithoutPassword
    /\ Failure("check_ssh_trust", 2) \in failures
    /\ pc = "exit"
    /\ exit_code = 1


(***************************************************************************)
(* Properties of the trust stage in cluster mode (specification Spec)      *)
(***************************************************************************)
TrustOps == {"check_ssh_trust", "setup_ssh_trust"}

\* The nodes a trust operation was issued to.
TrustedSoFar == {o.target : o \in {x \in ops : x.op \in TrustOps}}

\* C26: in cluster mode the trust stage takes the nodes in the order of the
\* list; once trust has failed for node k the run has ended with status 1,
\* every node before k has had its trust operations and nothing else, and no
\* trust operation was issued to a node after k.
C26_TrustStageInOrderStopsAtFailure ==
    config.mode = "cluster" =>
        /\ pc = "check_ssh_trust" => TrustedSoFar = 1..node_idx
        /\ \A k \in 1..NodeCount :
             Failure("check_ssh_trust", k) \in failures =>
                 /\ pc = "exit"
                 /\ exit_code = 1
                 /\ TrustedSoFar = 1..k
                 /\ \A o \in ops : o.target \in 1..NodeCount => o.op \in TrustOps

\* Three nodes: trust was set up on node 1, failed on node 2, and node 3 was
\* never contacted.
C26_Witness ==
    /\ config.mode = "cluster"
    /\ NodeCount = 3
    /\ Op(1, "setup_ssh_trust") \in ops
    /\ Failure("check_ssh_trust", 2) \in failures
    /\ Op(3, "check_ssh_trust") \notin ops
    /\ pc = "exit"


(***************************************************************************)
(* Properties of prepare_disk (specification SpecDisk)                     *)
(***************************************************************************)
\* The steps of prepare_disk in the order of the code, for a format_disk.
PrepareSteps(format_disk) ==
    <<"check_os_partition", "check_disk">>
        \o (IF format_disk THEN <<"format_disk">> ELSE <<>>)
        \o <<"mount_disk", "add_to_fstab", "check_disk_space", "set_permissions">>

\* The step was invoked by the call that disk_trace records.
Ran(trace, step) == \E i \in 1..Len(trace) : trace[i] = step

\* The step was invoked and a later step was invoked after it.
Passed(trace, step) == \E i \in 1..(Len(trace) - 1) : trace[i] = step

\* C27: a call of prepare_disk invokes a prefix of safety check, availability
\* probe, format, mount, fstab, free space, permissions; a step is invoked
\* only after the steps before it succeeded; the effects of the steps that
\* succeeded are in place whatever the call returns, a step that was not
\* passed has none; True is returned only after all steps were invoked; and
\* no format happens when format_disk is False.
C27_PrepareDiskStepsInOrder ==
    [][disk_call'.op = "prepare_disk" =>
        LET c == disk_call'
            tr == disk_trace'
            all == PrepareSteps(c.format_disk)
            pair == <<c.device, c.mount_point>>
        IN  /\ IsPrefix(tr, all) /\ Len(tr) >= 1
            /\ disk_ret' => tr = all
            /\ Ran(tr, "check_disk") => check_os_partition(proc_mounts, c.device)
            /\ ~c.format_disk => ~Ran(tr, "format_disk") /\ formatted' = formatted
            /\ formatted' = IF Passed(tr, "format_disk")
                            THEN formatted \cup {c.device} ELSE formatted
            /\ proc_mounts' = IF Passed(tr, "mount_disk")
                              THEN proc_mounts \cup {pair} ELSE proc_mounts
            /\ fstab' = IF Passed(tr, "add_to_fstab")
                        THEN add_to_fstab(fstab, c.device, c.mount_point, "ext4")
                        ELSE fstab
    ]_vars

\* A call without format_disk that mounted the device and recorded it, then
\* returned False at the free-space check.
C27_Witness ==
    /\ disk_call.op = "prepare_disk"
    /\ disk_call.device = nvme0n1p1
    /\ ~disk_call.format_disk
    /\ ~disk_ret
    /\ disk_trace = <<"check_os_partition", "check_disk", "mount_disk",
                      "add_to_fstab", "check_disk_space">>
    /\ <<nvme0n1p1, DataMountPoint>> \in proc_mounts
    /\ Len(fstab) = 1
    /\ formatted = {}


(***************************************************************************)
(* Properties of mount_disk (specification SpecMount)                      *)
(***************************************************************************)
\* C28: two calls of mount_disk with the same arguments issue at most one
\* mount command and both return True.
C28_MountTwiceOneCommandBothTrue ==
    Len(mount_log) = 2 =>
        /\ ~(mount_log[1].cmd /\ mount_log[2].cmd)
        /\ mount_log[1].ret /\ mount_log[2].ret


(***************************************************************************)
(* Properties of configure_firewall on an active firewall (SpecFw)         *)
(***************************************************************************)
\* The turns of the loop of call c, in order.
TurnsOf(c) == LET of_c(e) == e.call = c IN SelectSeq(fw_log, of_c)

\* The port-opening commands call c issued for a port.
OpenCmds(c, port) ==
    {k \in 1..Len(fw_cmds) :
        fw_cmds[k].call = c /\ fw_cmds[k].verb = "open" /\ fw_cmds[k].port = port}

\* The accept rules the host holds for a port.
RulesFor(port) == {k \in 1..Len(fw_rules) : fw_rules[k] = port}

FailedOpens == {"add_fails", "save_fails"}

\* C29: a call of configure_firewall on an active firewall takes every port
\* of the list in order; a port that has a rule (and whose listing worked)
\* is skipped with no open command, a port without a rule gets exactly one
\* open_port call; a failed open_port does not end the loop, and the call
\* returns False exactly when some open_port call failed.
C29_ActiveFirewallLoop ==
    \A c \in 1..Len(fw_hist) :
        fw_hist[c].active =>
            LET turns == TurnsOf(c) IN
            /\ [k \in 1..Len(turns) |-> turns[k].port] = fw_hist[c].ports
            /\ \A k \in 1..Len(turns) :
                 /\ (turns[k].was_open /\ turns[k].query = "ok") =>
                        /\ turns[k].opened = "none"
                        /\ OpenCmds(c, turns[k].port) = {}
                 /\ ~turns[k].was_open =>
                        /\ turns[k].opened # "none"
                        /\ Cardinality(OpenCmds(c, turns[k].port)) = 1
            /\ fw_hist[c].ret = "False" <=>
                 \E k \in 1..Len(turns) : turns[k].opened \in FailedOpens

\* Every command of the loops of calls 1..n succeeded.
AllSucceeded(n) ==
    \A k \in 1..Len(fw_log) :
        fw_log[k].call <= n => fw_log[k].query = "ok" /\ fw_log[k].opened \notin FailedOpens

\* C30: after two calls of configure_firewall with the same ports on an
\* active firewall, all of whose commands succeeded, the second call has
\* issued no port-opening command and the host holds exactly one rule for
\* each of the ports.
C30_SecondCallOpensNothing ==
    (/\ Len(fw_hist) >= 2
     /\ fw_hist[1].active /\ fw_hist[2].active
     /\ fw_hist[1].ports = fw_hist[2].ports
     /\ AllSucceeded(2)) =>
        \A i \in 1..Len(fw_hist[2].ports) :
            /\ OpenCmds(2, fw_hist[2].ports[i]) = {}
            /\ Cardinality(RulesFor(fw_hist[2].ports[i])) = 1


(***************************************************************************)
(* Properties of check_health_api (specification SpecApi)                  *)
(***************************************************************************)
Gets == {k \in 1..Len(pl_log) : pl_log[k].ev = "get"}

FailedGets == {k \in Gets : pl_log[k].status # 200}

\* C31: check_health_api has returned True exactly when its last request,
\* one of the first retry_count, received status 200 and every request
\* before it received another status or raised; it has returned False only
\* after retry_count requests none of which received 200; there is a wait of
\* retry_delay between consecutive requests and none after the last.
C31_HealthApiAttemptsAndWaits ==
    pl_pc = "returned" =>
        /\ Cardinality(Gets) <= retry_count
        /\ Cardinality(Sleeps) = WaitsBetween(Cardinality(Gets))
        /\ \A k \in Sleeps : pl_log[k].secs = retry_delay /\ k > 1 /\ k < Len(pl_log)
        /\ \A k \in 1..(Len(pl_log) - 1) : pl_log[k].ev # pl_log[k + 1].ev
        /\ pl_ret <=> (\E k \in Gets : pl_log[k].status = 200)
        /\ pl_ret =>
             /\ pl_log[Len(pl_log)].status = 200
             /\ Cardinality(FailedGets) = Cardinality(Gets) - 1
        /\ ~pl_ret => Cardinality(Gets) = retry_count

\* The fourth request is the first to receive 200, after a 204, a 503 and a
\* request that raised.
C31_Witness ==
    /\ pl_pc = "returned"
    /\ retry_count = 5
    /\ pl_ret
    /\ Cardinality(Gets) = 4
    /\ Cardinality(Sleeps) = 3
    /\ {pl_log[k].status : k \in FailedGets} = {204, 503, NoStatus}


(***************************************************************************)
(* Properties of the probes of run_comprehensive_check (SpecHealth)        *)
(***************************************************************************)
ProbeOrder ==
    <<"service_running", "port_listening", "console_port_listening", "health_api",
      "mc_available">>

\* The smoke test has been decided: it ran or it was skipped.
SmokeDecided == hc_pc \in {"overall_status", "returned"}

SmokeRan == \E k \in 1..Len(hc_trace) : hc_trace[k] = "bucket_access"

\* C32: the probes run in the order service-active, service port, console
\* port, health endpoint, client tool, all five whatever the earlier ones
\* found; the smoke test runs exactly when the client tool is available and
\* the health endpoint passed, and bucket_access is False when it did not run.
C32_ProbesInOrderSmokeTestGated ==
    /\ Len(hc_trace) <= 5 => IsPrefix(hc_trace, ProbeOrder)
    /\ Len(hc_trace) > 5 => SubSeq(hc_trace, 1, 5) = ProbeOrder
    /\ SmokeDecided =>
         /\ Len(hc_trace) >= 5
         /\ SmokeRan <=> (hc_results.mc_available /\ hc_results.health_api)
         /\ ~SmokeRan => ~hc_results.bucket_access
         /\ SmokeRan => hc_trace[6] = "bucket_access"

\* Every probe before the client tool failed, the client tool is there, and
\* the smoke test was skipped.
C32_Witness ==
    /\ hc_pc = "returned"
    /\ hc_trace = ProbeOrder
    /\ ~hc_results.service_running
    /\ ~hc_results.port_listening
    /\ ~hc_results.console_port_listening
    /\ ~hc_results.health_api
    /\ hc_results.mc_available
    /\ ~hc_results.bucket_access


(***************************************************************************)
(* Properties of the bucket provisioning (specification SpecHealth)        *)
(***************************************************************************)
\* The commands of a step sequence, without their outcomes.
McCmds(steps) == [k \in 1..Len(steps) |-> <<steps[k].cmd, steps[k].bucket>>]

\* The provisioning in which every command succeeds.
AllOk(buckets) == [i \in 1..Len(buckets) |-> [mb |-> "ok", policy |-> "ok", quota |-> "ok"]]

\* create_buckets was called and no command but mb and quota commands failed.
OnlyWarnings ==
    /\ hc_created # "not called"
    /\ \A k \in 1..Len(hc_steps) :
         hc_steps[k].outcome # "ok" => hc_steps[k].cmd \in {"mb", "quota"}

\* C33: create_buckets is called exactly when overall_status is true and the
\* bucket list is not empty; overall_status is the AND of its three probes
\* whatever create_buckets returned; and when the only commands that failed
\* are bucket creations and quota assignments, create_buckets has run every
\* command of the provisioning in which nothing fails and has returned True.
C33_ProvisioningGatedAndTolerant ==
    hc_pc = "returned" =>
        /\ hc_created # "not called" <=> (hc_results.overall_status /\ hc_buckets # <<>>)
        /\ hc_results.overall_status = overall_status(hc_results)
        /\ OnlyWarnings =>
             /\ hc_created = "True"
             /\ McCmds(hc_steps) =
                  McCmds(create_buckets(hc_buckets, TRUE, TRUE, AllOk(hc_buckets)).steps)

\* Creating photos failed and so did its quota; logs was provisioned after it
\* and the provisioning returned True.
C33_Witness ==
    /\ hc_pc = "returned"
    /\ hc_buckets = <<Photos, Logs>>
    /\ hc_created = "True"
    /\ hc_steps = <<McStep("version", "", "ok"), McStep("alias", "", "ok"),
                    McStep("mb", "photos", "fails"), McStep("policy public", "photos", "ok"),
                    McStep("quota", "photos", "fails"),
                    McStep("mb", "logs", "ok"), McStep("policy private", "logs", "ok")>>


(***************************************************************************)
(* Properties of configure_service (specification SpecSvc)                 *)
(***************************************************************************)
SvcOrder ==
    <<"write_env", "write_unit", "daemon-reload", "enable", "start", "status", "journalctl">>

\* The steps of call c, in order.
SvcStepsOf(c) == LET of_c(e) == e.call = c IN SelectSeq(svc_log, of_c)

\* C34: every call of configure_service runs a prefix of: write the
\* environment and unit files, daemon-reload, enable, start, status check,
\* log retrieval; a step follows only steps that succeeded; the logs are
\* retrieved exactly after a status check that did not report the service
\* running; and the call returns True exactly when the status check was
\* reached and reported it running, False after the logs otherwise.
C34_ConfigureServiceStepsInOrder ==
    \A c \in 1..svc_calls :
        LET st == SvcStepsOf(c)
            finished == c < svc_calls \/ svc_pc = "returned"
        IN  /\ IsPrefix([k \in 1..Len(st) |-> st[k].step], SvcOrder)
            /\ \A k \in 1..(Len(st) - 1) :
                 IF st[k].step = "status" THEN st[k].outcome # "active (running)"
                 ELSE st[k].outcome = "ok"
            /\ (finished /\ Len(st) >= 6 /\ st[6].outcome # "active (running)") => Len(st) = 7
            /\ (c = svc_calls /\ svc_pc = "returned") =>
                 (svc_ret <=> (Len(st) = 6 /\ st[6].outcome = "active (running)"))

\* The unit was written, enabled and started, the status check showed it
\* active but not running, the logs were fetched and False was returned.
C34_Witness ==
    /\ svc_pc = "returned"
    /\ svc_calls = 1
    /\ ~svc_ret
    /\ Len(svc_log) = 7
    /\ svc_log[6] = [call |-> 1, step |-> "status", outcome |-> "active (exited)"]
    /\ svc_log[7].step = "journalctl"
    /\ svc_host.started


(***************************************************************************)
(* Properties of the existing-installation guard (specification SpecGuard) *)
(***************************************************************************)
\* C35: when check_minio_exists has let the run go on, the existence probe
\* of every target was executed and none found a service unit.
C35_GuardPassesOnlyProbedTargets ==
    InSeq("check_minio_exists", returned) =>
        /\ nodes_with_minio = <<>>
        /\ unprobed = {}


(***************************************************************************)
(* Properties of the remote OS-partition checks (specification Spec)       *)
(***************************************************************************)
\* C36: on every remote target whose OS-partition check was run, the run
\* went on exactly when check_os_partition would return True for the
\* target's device and mount table, and was ended otherwise.
C36_RemoteCheckDecidesAsLocal ==
    \A t \in 1..MaxNodes :
        Op(t, "check_os_partition") \in ops =>
            (Failure("check_os_partitions", t) \notin failures
                <=> check_os_partition(remote_mounts[t], ConfiguredDevice(t)))


(***************************************************************************)
(* The machine the health probes look at                                   *)
(***************************************************************************)
\* C37: every finding that makes a target's overall_status is the state of
\* that target: the service finding is whether minio is active on it, and
\* the port and API findings are whether its port and its API answer.
C37_ProbesEvaluatedAgainstTarget ==
    \A r \in rh_results :
        ~rh_config.dry_run =>
            /\ r.results.service_running = rh_machines[r.target].active
            /\ r.results.port_listening = rh_machines[r.target].listening
            /\ r.results.health_api = rh_machines[r.target].healthy


(***************************************************************************)
(* check_ssh_trust on a host that accepts a key (specification SpecCt)     *)
(***************************************************************************)
\* A key-based session to the host succeeds: the host accepts the configured
\* private key, or it accepts a default identity of the local user.
KeySessionSucceeds ==
    \/ ct_args.key_file # NoKey /\ ct_files.private /\ ct_host.key
    \/ ct_files.default /\ ct_host.default

\* C38: on a host on which a key-based session succeeds, with the key files
\* readable and no connection timing out, check_ssh_trust returns True
\* whatever key_file and password are, both absent included.
C38_KeyTrustedHostReportedTrusted ==
    (/\ ct_pc \in {"returned", "raised"}
     /\ KeySessionSucceeds
     /\ ct_files.public # "unreadable"
     /\ \A i \in 1..Len(ct_sessions) : ct_sessions[i].outcome # "socket.timeout")
        => ct_ret = "True"


(***************************************************************************)
(* The firewall of a remote target (specification SpecRf)                  *)
(***************************************************************************)
RfOpenCmds(port) ==
    {i \in 1..Len(rf_cmds) : rf_cmds[i].verb = "open" /\ rf_cmds[i].port = port}

\* C39: the stage treats a remote target as configure_firewall treats the
\* local host: when the chain reaches a target whose firewall is not active
\* the stage goes on and the target's ports are as they were, and no
\* port-opening command is given for a port that was open on the target.
C39_RemoteFirewallAsLocalPolicy ==
    /\ (rf_pc \in {"returned", "exited"} /\ rf_cmds # <<>>
            /\ ~(rf_host.installed /\ rf_host.active))
           => (rf_pc = "returned" /\ rf_open = rf_host.open)
    /\ \A port \in rf_host.open : RfOpenCmds(port) = {}

====
